---- MODULE Spec2Model ----
(***************************************************************************)
(* A model of the host-side link layer of the haptic glove SDK             *)
(* (eneuberg/haptic_sdk): the bounded byte buffer (StreamBuffer), the      *)
(* status frame scanner (StatusMonitor) with its chunk queue and thread,   *)
(* the raw byte connection (DongleConnection), the subscriber lists of the *)
(* three broadcasters, the transport (SerialTransport), the accumulated    *)
(* glove state (StateBuilder) and the telemetry line parser (parser.py).   *)
(*                                                                         *)
(* Bytes are the integers 0..255.  Python's 0-based indices and half-open  *)
(* slices are kept: Slice(s, a, b) is s[a:b].  Floats are pairs <<n, d>>   *)
(* of a numerator and a denominator; NaN is <<0, 0>>.                      *)
(*                                                                         *)
(* Each component has its own specification (SpecRing, SpecScan, SpecLink, *)
(* SpecBus, SpecSend and SpecOrch, SpecQueue, SpecBuilder, SpecParser);    *)
(* the variables of the components a specification does not exercise stay  *)
(* at their constructor values.  SpecTrim is the scanner with a buffer     *)
(* ceiling that its input overflows, SpecDongle the Dongle facade over the *)
(* connection, SpecStatus the status subscriber list with the scanner's    *)
(* buffer lock, SpecTear a snapshot taken while an update is applied, and  *)
(* SpecOrder the transport with the order of its snapshots recorded.       *)
(* FairOrch, FairQueue and FairLink add the fairness that termination      *)
(* properties need.                                                        *)
(***************************************************************************)
EXTENDS Integers, Sequences, FiniteSets, TLC

VARIABLES
    \* ---- StreamBuffer (sdk/dongle/buffer.py)
    ring_max_size,        \* self._max_size
    ring_buffer,          \* self._buffer
    ring_overflow_count,  \* self._overflow_count
    ring_last,            \* history: the last call, its argument, the buffer before, its result
    \* ---- StatusMonitor (sdk/dongle/status_monitor.py)
    mon_max_buffer_size,  \* self.MAX_BUFFER_SIZE
    mon_buffer,           \* self._buffer
    mon_latest_status,    \* self._latest_status
    mon_delivered,        \* the statuses a subscriber registered at construction was called with
    scan_items,           \* history: what the device sends, item by item
    scan_pending,         \* the bytes of the stream the reader has not read yet
    scan_nchunks,         \* history: how many chunks were processed (counted up to MaxChunkCount)
    \* ---- DongleConnection (sdk/dongle/connection.py)
    link_connected,        \* self._connected
    link_active,           \* self._active
    link_serial,           \* self._serial: 0 (None) or the number of the open handle
    link_autoreconnect,    \* self._autoreconnect
    link_reconnect_thread, \* self._reconnect_thread
    link_stop_reconnect,   \* self._stop_reconnect (the event is set)
    link_reader_thread,    \* self._reader_thread
    link_opened,           \* how many handles serial.Serial(...) has opened
    link_closed,           \* the handle that was closed last (0: none yet)
    link_nreconnect,       \* how many reconnect threads were started
    dev_available,         \* the device is plugged in (is_dongle_available)
    pc,                    \* where each thread is ("none": not started, or ended)
    ret,                   \* where a thread inside _handle_error goes on afterwards
    rd_chunk,              \* per reader: the chunk it is broadcasting
    rd_idx,                \* per reader: the subscriber of its copy that is being called
    link_nread,            \* history: how many chunks were read
    link_seen,             \* history: per subscriber, the chunks it was called with
    u_ops,                 \* how many calls the User has made
    w_ops,                 \* how many writes the Writer has made
    \* ---- subscriber lists (connection.py, status_monitor.py, transport/serial.py)
    bus_kind,              \* which of the three lists this is
    bus_subscribers,       \* the list of callbacks
    bus_lock,              \* the owner of the subscriber lock
    bus_buffer_lock,       \* the owner of StatusMonitor._buffer_lock
    bus_pc,                \* where each thread is
    bus_copy,              \* per publisher: the copy of the list it iterates
    bus_idx,               \* per publisher: the entry of the copy being called
    bus_handle,            \* per owned callback: "none", or its disposer is "live" or has "returned"
    bus_npub,              \* how many broadcasts were begun
    bus_nops,              \* how many calls the clients have made
    bus_nnested,           \* how many calls were made from inside callbacks
    bus_raised,            \* history, per publisher: a callback of the running broadcast has raised
    bus_first,             \* history: how the last first call of subscribe_state ended ("none" yet, "returned", "raised")
    \* ---- SerialTransport (sdk/transport/serial.py)
    tr_connected,          \* self._connected
    tr_active,             \* self._active
    tr_command_queue,      \* self._command_queue: command numbers, 0 is the sentinel None
    tr_sender_thread,      \* self._sender_thread
    tr_reader_thread,      \* self._reader_thread
    tr_elapsed,            \* the time since self._last_send_time, in ticks, counted up to MinSendInterval
    sb_connected,          \* self._state_builder._connected
    dg_connected,          \* self._dongle.is_dongle_connected
    dg_autoreconnect,      \* the Dongle reconnects by itself
    tr_subscribers,        \* self._subscribers
    tr_pc,                 \* where each thread is ("none": not started, or ended)
    tr_command,            \* per sender loop: the command it has dequeued (0: none)
    tr_sleep,              \* per sender loop: the ticks its time.sleep still has to wait
    tr_pub,                \* per thread inside _notify_subscribers: snapshot, subscriber, where to go on
    tr_naccepted,          \* history: how many commands send_command has put into the queue
    tr_sent,               \* history: the commands handed to Dongle.write, in order
    tr_since_write,        \* history: the time since the last write completed, counted up to MinSendInterval
    tr_closed,             \* history: disconnect() has returned and connect() was not called since
    tr_ops,                \* how many calls the Caller has made
    tr_radio,              \* history: what the latest status said of the radio at the last connection check
    \* ---- StatusMonitor's chunk queue and thread (sdk/dongle/status_monitor.py)
    cq_queue,              \* self._data_queue
    cq_running,            \* self._running
    cq_thread,             \* self._thread
    cq_pc,                 \* where each thread is
    cq_nchunks,            \* how many chunks the Link reader has delivered
    cq_nops,          \* how many calls the MonitorOwner has made
    cq_since_poll,         \* per monitor thread: ticks since its last_poll_time, up to PollInterval
    cq_link,               \* connection.is_connected()
    cq_wrote,              \* per monitor thread: its last poll step wrote the status request
    cq_nreq,               \* history: how many status requests were written, up to MaxRequests
    \* ---- StateBuilder (sdk/protocol/state_builder.py)
    sb_fingers,            \* self._fingers
    sb_imu,                \* self._imu (one angle)
    sb_calibrating,        \* self._calibrating
    sb_snap,               \* the last snapshot returned, in a list that is empty before the first
    sb_recal,              \* history, per finger: set_calibrating(True) since its last apply_calibration
    sb_nops,               \* how many calls were made on the accumulator
    sb_last,               \* history: the last call and its arguments
    \* ---- ProtocolParser (sdk/protocol/parser.py)
    pr_line,               \* the argument of parse_line
    pr_result,             \* what parse_line returned
    pr_pc,                 \* "call" before the call, "returned" after it
    \* ---- Dongle (sdk/dongle/manager.py)
    dgm_call,              \* the Dongle method the User called last: "none", "connect", "disconnect"
    dgm_monitor_running,   \* self._monitor._running
    dgm_ops,               \* how many Dongle methods were called
    \* ---- a snapshot() taken while apply() runs (sdk/protocol/state_builder.py)
    cs_writes,             \* apply in progress: the fingers and values its loop has still to write
    cs_reads,              \* snapshot in progress: the fingers its comprehension has still to read
    cs_partial,            \* snapshot in progress: the finger states built so far
    cs_whole,              \* history: the finger tables before and after the apply in progress
    cs_allowed,            \* history: the tables before or after every apply the snapshot overlapped
    \* ---- the order of the snapshots that _notify_subscribers delivers (sdk/transport/serial.py)
    ord_newer,             \* history, per publishing thread: the threads that took their snapshot later
    ord_stale              \* history, per publishing thread: the subscribers that got a later snapshot

ringVars == <<ring_max_size, ring_buffer, ring_overflow_count, ring_last>>
scanVars == <<mon_max_buffer_size, mon_buffer, mon_latest_status, mon_delivered,
              scan_items, scan_pending, scan_nchunks>>
linkState == <<link_connected, link_active, link_serial, link_autoreconnect,
               link_reconnect_thread, link_stop_reconnect, link_reader_thread,
               link_opened, link_closed, link_nreconnect>>
linkThreads == <<pc, ret, rd_chunk, rd_idx>>
linkHistory == <<link_nread, link_seen, u_ops, w_ops>>
linkVars == <<linkState, dev_available, linkThreads, linkHistory>>
busVars == <<bus_kind, bus_subscribers, bus_lock, bus_buffer_lock, bus_pc, bus_copy,
             bus_idx, bus_handle, bus_npub, bus_nops, bus_nnested, bus_raised, bus_first>>
orchState == <<tr_connected, tr_active, tr_command_queue, tr_sender_thread,
                tr_reader_thread, tr_elapsed, sb_connected, tr_subscribers>>
orchDongle == <<dg_connected, dg_autoreconnect>>
orchThreads == <<tr_pc, tr_command, tr_sleep, tr_pub>>
orchHistory == <<tr_naccepted, tr_sent, tr_since_write, tr_closed, tr_ops, tr_radio>>
orchVars == <<orchState, orchDongle, orchThreads, orchHistory>>
cqPoll == <<cq_since_poll, cq_link, cq_wrote, cq_nreq>>
cqVars == <<cq_queue, cq_running, cq_thread, cq_pc, cq_nchunks, cq_nops, cqPoll>>
sbVars == <<sb_fingers, sb_imu, sb_calibrating, sb_snap, sb_recal, sb_nops, sb_last>>
prVars == <<pr_line, pr_result, pr_pc>>
dgmVars == <<dgm_call, dgm_monitor_running, dgm_ops>>
csVars == <<cs_writes, cs_reads, cs_partial, cs_whole, cs_allowed>>
ordVars == <<ord_newer, ord_stale>>
vars == <<ringVars, scanVars, linkVars, busVars, orchVars, cqVars, sbVars, prVars, dgmVars, csVars, ordVars>>

(***************************************************************************)
(* Python sequence helpers                                                 *)
(***************************************************************************)
Min(S) == CHOOSE x \in S : \A y \in S : x <= y

Max2(a, b) == IF a >= b THEN a ELSE b

Min2(a, b) == IF a <= b THEN a ELSE b

\* s[a:b] for 0 <= a, b (clamped to the length as Python does)
Slice(s, a, b) == SubSeq(s, Min2(a, Len(s)) + 1, Min2(b, Len(s)))

\* s[a:]
SliceFrom(s, a) == Slice(s, a, Len(s))

\* s[-n:] for n >= 0: -0 is 0, so s[-0:] is the whole of s
SliceLast(s, n) == IF n = 0 \/ n >= Len(s) THEN s ELSE SliceFrom(s, Len(s) - n)

\* bytes.find(sub, start): the lowest index >= start where sub occurs, or -1
Find(s, sub, start) ==
    LET hits == {i \in start..(Len(s) - Len(sub)) :
                    s[i + 1] = sub[1] /\ Slice(s, i, i + Len(sub)) = sub}
    IN IF hits = {} THEN -1 ELSE Min(hits)

RECURSIVE Flatten(_)
Flatten(ss) == IF ss = <<>> THEN <<>> ELSE Head(ss) \o Flatten(Tail(ss))

\* all sequences over S of length lo..hi
SeqsOf(S, lo, hi) == UNION {[1..n -> S] : n \in lo..hi}

(***************************************************************************)
(* StreamBuffer: thread-safe FIFO byte buffer, overwrite on overflow.      *)
(* Every method body runs under self._lock; the only statement outside it  *)
(* (write's "if not data") reads the argument alone, so each call is one   *)
(* atomic step and a thread interleaving is a sequence of calls.           *)
(***************************************************************************)
NL == 10

\* bounds of the ByteRing specification
MaxCap == 3
MaxData == 3
MaxOverflow == 2

RingBytes == {NL, 65, 66}

\* the outcome of write(data) on buffer buf with capacity max: the new
\* buffer and whether the overflow counter is incremented
WriteDropCountOffByOne(new_len, max) == new_len - max - 1

WriteDropCount(new_len, max) == new_len - max

\* a write that keeps the head of an oversized chunk instead of its tail
StreamBuffer_write_head(buf, max, data) ==
    IF data = <<>> THEN [buffer |-> buf, overflow |-> FALSE]
    ELSE IF Len(data) >= max
         THEN [buffer |-> Slice(data, 0, max), overflow |-> TRUE]
         ELSE LET new_len == Len(buf) + Len(data)
              IN IF new_len > max
                 THEN [buffer |-> SliceFrom(buf, new_len - max) \o data, overflow |-> TRUE]
                 ELSE [buffer |-> buf \o data, overflow |-> FALSE]

StreamBuffer_write(buf, max, data) ==
    IF data = <<>> THEN [buffer |-> buf, overflow |-> FALSE]
    ELSE IF Len(data) >= max
         THEN [buffer |-> SliceLast(data, max), overflow |-> TRUE]
         ELSE LET new_len == Len(buf) + Len(data)
              IN IF new_len > max
                 THEN [buffer |-> SliceFrom(buf, WriteDropCount(new_len, max)) \o data,
                       overflow |-> TRUE]
                 ELSE [buffer |-> buf \o data, overflow |-> FALSE]

\* read(size): [buffer, ret]
StreamBuffer_read(buf, size) ==
    IF buf = <<>> THEN [buffer |-> buf, ret |-> <<>>]
    ELSE IF size < 0 \/ size >= Len(buf)
         THEN [buffer |-> <<>>, ret |-> buf]
         ELSE [buffer |-> SliceFrom(buf, size), ret |-> Slice(buf, 0, size)]

\* read_line(): [buffer, ret]
ReadLineEndExclusive(idx) == idx

ReadLineEnd(idx) == idx + 1

StreamBuffer_read_line(buf) ==
    LET idx == Find(buf, <<NL>>, 0)
    IN IF idx = -1 THEN [buffer |-> buf, ret |-> <<>>]
       ELSE [buffer |-> SliceFrom(buf, ReadLineEnd(idx)),
             ret |-> Slice(buf, 0, ReadLineEnd(idx))]

RingInit ==
    /\ ring_max_size \in 1..MaxCap
    /\ ring_buffer = <<>>
    /\ ring_overflow_count = 0
    /\ ring_last = [op |-> "init", arg |-> <<>>, before |-> <<>>, ret |-> <<>>]

RingIdle ==
    /\ ring_max_size = 1
    /\ ring_buffer = <<>>
    /\ ring_overflow_count = 0
    /\ ring_last = [op |-> "init", arg |-> <<>>, before |-> <<>>, ret |-> <<>>]

RingWrite ==
    \E data \in SeqsOf(RingBytes, 0, MaxData) :
        LET r == StreamBuffer_write(ring_buffer, ring_max_size, data)
        IN /\ r.overflow => ring_overflow_count < MaxOverflow
           /\ ring_buffer' = r.buffer
           /\ ring_overflow_count' = ring_overflow_count + (IF r.overflow THEN 1 ELSE 0)
           /\ ring_last' = [op |-> "write", arg |-> data, before |-> ring_buffer, ret |-> <<>>]
           /\ UNCHANGED ring_max_size

RingRead ==
    \E size \in -1..MaxCap :
        LET r == StreamBuffer_read(ring_buffer, size)
        IN /\ ring_buffer' = r.buffer
           /\ ring_last' = [op |-> "read", arg |-> <<size>>, before |-> ring_buffer, ret |-> r.ret]
           /\ UNCHANGED <<ring_max_size, ring_overflow_count>>

RingReadLine ==
    LET r == StreamBuffer_read_line(ring_buffer)
    IN /\ ring_buffer' = r.buffer
       /\ ring_last' = [op |-> "read_line", arg |-> <<>>, before |-> ring_buffer, ret |-> r.ret]
       /\ UNCHANGED <<ring_max_size, ring_overflow_count>>

RingClear ==
    /\ ring_buffer' = <<>>
    /\ ring_last' = [op |-> "clear", arg |-> <<>>, before |-> ring_buffer, ret |-> <<>>]
    /\ UNCHANGED <<ring_max_size, ring_overflow_count>>

(***************************************************************************)
(* Status protocol (sdk/dongle/status.py)                                  *)
(***************************************************************************)
\* b'\xFF\x34[STATUS_RESPONSE]' and b'\xFF\x34'
ESC_STATUS_START ==
    <<255, 52, 91, 83, 84, 65, 84, 85, 83, 95, 82, 69, 83, 80, 79, 78, 83, 69, 93>>

ESC_STATUS_END == <<255, 52>>

STATUS_MONITOR_MAX_BUFFER_SIZE == 65536

\* json_bytes.decode('utf-8', errors='ignore'): bytes that are no valid
\* UTF-8 are dropped.  Of the bytes used here only 0xFF is one (it occurs in
\* no valid UTF-8 sequence); all others are ASCII.
Utf8DecodeIgnore(bs) == SelectSeq(bs, LAMBDA b : b < 128)

Whitespace == {9, 10, 13, 32}

RECURSIVE LStrip(_)
LStrip(s) == IF s # <<>> /\ Head(s) \in Whitespace THEN LStrip(Tail(s)) ELSE s

RECURSIVE RStrip(_)
RStrip(s) ==
    IF s # <<>> /\ s[Len(s)] \in Whitespace THEN RStrip(SubSeq(s, 1, Len(s) - 1)) ELSE s

Strip(s) == RStrip(LStrip(s))

(***************************************************************************)
(* json.loads is library code.  It is modelled on a fragment of JSON with  *)
(* one-byte tokens: a document is an object { k:v , k:v ... } whose keys   *)
(* are v (for "version") and b (for "bt_connected") and whose values are   *)
(* the digits 1, 2 and t, f (true, false), or a bare value (valid JSON    *)
(* that is no object).  Everything else is a JSONDecodeError.              *)
(***************************************************************************)
JsonKeys == {118, 98}

JsonValues == {49, 50, 116, 102}

\* the Python value of a value token: 1, 2, True (= 1), False (= 0)
JsonValueOf(tok) == CASE tok = 116 -> 1 [] tok = 102 -> 0 [] OTHER -> tok - 48

JsonLoads(s) ==
    IF Len(s) = 1 /\ s[1] \in JsonValues
    THEN [kind |-> "scalar", pairs |-> <<>>]
    ELSE IF Len(s) >= 2 /\ s[1] = 123 /\ s[Len(s)] = 125
         THEN LET inner == SubSeq(s, 2, Len(s) - 1)
                  wellFormed ==
                      \/ inner = <<>>
                      \/ /\ Len(inner) % 4 = 3
                         /\ \A i \in 1..Len(inner) :
                              CASE i % 4 = 1 -> inner[i] \in JsonKeys
                                [] i % 4 = 2 -> inner[i] = 58
                                [] i % 4 = 3 -> inner[i] \in JsonValues
                                [] OTHER     -> inner[i] = 44
              IN IF wellFormed
                 THEN [kind |-> "object",
                       pairs |-> [n \in 1..((Len(inner) + 1) \div 4) |->
                                     <<inner[4 * n - 3], JsonValueOf(inner[4 * n - 1])>>]]
                 ELSE [kind |-> "error", pairs |-> <<>>]
         ELSE [kind |-> "error", pairs |-> <<>>]

\* dict.get(key, default); a repeated key keeps its last value
DictGet(pairs, key, default) ==
    LET at == {n \in 1..Len(pairs) : pairs[n][1] = key}
    IN IF at = {} THEN default ELSE pairs[CHOOSE n \in at : \A m \in at : m <= n][2]

\* the absent status, and None as a field value
NoStatus == [kind |-> "None", firmware_version |-> -1, bluetooth_connected |-> 0]

RaisedStatus == [kind |-> "raise", firmware_version |-> -1, bluetooth_connected |-> 0]

\* DongleStatus.from_json, on the two fields the model keeps (the timestamp
\* is the local time of parsing, not a parsed field)
DongleStatus_from_json(pairs) ==
    [kind |-> "status",
     firmware_version |-> DictGet(pairs, 118, -1),
     bluetooth_connected |-> DictGet(pairs, 98, 0)]

\* parse_status_json: a status, None, or an exception that is not caught
\* there (from_json on JSON that is no object raises AttributeError)
parse_status_json(json_bytes) ==
    LET json_str == Strip(Utf8DecodeIgnore(json_bytes))
        data == JsonLoads(json_str)
    IN IF json_str = <<>> THEN NoStatus
       ELSE CASE data.kind = "error"  -> NoStatus
              [] data.kind = "scalar" -> RaisedStatus
              [] OTHER                -> DongleStatus_from_json(data.pairs)

(***************************************************************************)
(* StatusMonitor: reassembly of status frames from the chunk stream        *)
(***************************************************************************)
\* _trim_buffer
StatusMonitor_trim_buffer_oldest(buf, max) ==
    IF Len(buf) <= max THEN buf ELSE Slice(buf, 0, max)

StatusMonitor_trim_buffer_short(buf, max) ==
    IF Len(buf) <= max THEN buf ELSE SliceLast(buf, max - 1)

StatusMonitor_trim_buffer(buf, max) ==
    IF Len(buf) <= max THEN buf ELSE SliceLast(buf, max)

\* searching the end marker from the start marker itself, which begins with it
JsonStartAtMarker(start_idx) == start_idx

JsonStart(start_idx) == start_idx + Len(ESC_STATUS_START)

AfterEnd(end_idx) == end_idx + Len(ESC_STATUS_END)

\* _try_extract_status: the buffer afterwards and the status returned
StatusMonitor_try_extract_status(buf) ==
    LET start_idx == Find(buf, ESC_STATUS_START, 0)
    IN IF start_idx = -1 THEN [buffer |-> buf, status |-> NoStatus]
       ELSE LET json_start == JsonStart(start_idx)
                end_idx == Find(buf, ESC_STATUS_END, json_start)
            IN IF end_idx = -1 THEN [buffer |-> buf, status |-> NoStatus]
               ELSE [buffer |-> SliceFrom(buf, AfterEnd(end_idx)),
                     status |-> parse_status_json(Slice(buf, json_start, end_idx))]

\* the loop of _process_chunk: "if not status: break" ends it on the first
\* None, whether no frame was found or a frame failed to parse; an exception
\* out of parse_status_json leaves the loop as well (the buffer was already
\* cut).  Each status replaces _latest_status and is broadcast.
RECURSIVE ExtractLoop(_, _, _)
ExtractLoop(buf, latest, emitted) ==
    LET r == StatusMonitor_try_extract_status(buf)
    IN IF r.status.kind # "status"
       THEN [buffer |-> r.buffer, latest |-> latest, emitted |-> emitted]
       ELSE ExtractLoop(r.buffer, r.status, Append(emitted, r.status))

\* _process_chunk(chunk)
StatusMonitor_process_chunk(buf, max, latest, chunk) ==
    ExtractLoop(StatusMonitor_trim_buffer(buf \o chunk, max), latest, <<>>)

\* ---- what the device sends in the FrameScanner specification
Frame(payload) == ESC_STATUS_START \o payload \o ESC_STATUS_END

\* {v:1}   and   " {b:t\xFF}" (a blank and a stray 0xFF, dropped by strip and decode)
ValidPayloads == {<<123, 118, 58, 49, 125>>,
                  <<32, 123, 98, 58, 116, 255, 125>>}

\* {v:   (cut short)
BadPayloads == {<<123, 118, 58>>}

ValidFrames == {Frame(p) : p \in ValidPayloads}

BadFrames == {Frame(p) : p \in BadPayloads}

\* valid JSON that is no object
ScalarFrame == Frame(<<49>>)

\* a telemetry line, and a frame cut off before its end marker
TelemetryLine == <<65, NL>>

PartialFrame == ESC_STATUS_START \o <<123, 118>>

ScanItems == ValidFrames \cup BadFrames \cup {TelemetryLine, PartialFrame}

\* bounds of the FrameScanner specification
MaxItems == 2
MaxChunkCount == 2

PayloadOf(frame) ==
    Slice(frame, Len(ESC_STATUS_START), Len(frame) - Len(ESC_STATUS_END))

StatusOfFrame(frame) == parse_status_json(PayloadOf(frame))

ScanInit ==
    /\ mon_max_buffer_size = STATUS_MONITOR_MAX_BUFFER_SIZE
    /\ mon_buffer = <<>>
    /\ mon_latest_status = NoStatus
    /\ mon_delivered = <<>>
    /\ scan_items \in SeqsOf(ScanItems, 1, MaxItems)
    /\ scan_pending = Flatten(scan_items)
    /\ scan_nchunks = 0

ScanIdle ==
    /\ mon_max_buffer_size = STATUS_MONITOR_MAX_BUFFER_SIZE
    /\ mon_buffer = <<>>
    /\ mon_latest_status = NoStatus
    /\ mon_delivered = <<>>
    /\ scan_items = <<>>
    /\ scan_pending = <<>>
    /\ scan_nchunks = 0

\* The reader reads the next n bytes as one chunk, on_data queues it and the
\* monitor dequeues and processes it (chunks are processed in arrival order).
ProcessChunk ==
    \E n \in 1..Len(scan_pending) :
        LET chunk == SubSeq(scan_pending, 1, n)
            r == StatusMonitor_process_chunk(mon_buffer, mon_max_buffer_size,
                                             mon_latest_status, chunk)
        IN /\ scan_pending' = SubSeq(scan_pending, n + 1, Len(scan_pending))
           /\ mon_buffer' = r.buffer
           /\ mon_latest_status' = r.latest
           /\ mon_delivered' = mon_delivered \o r.emitted
           /\ scan_nchunks' = Min2(scan_nchunks + 1, MaxChunkCount)
           /\ UNCHANGED <<mon_max_buffer_size, scan_items>>

\* ---- the same scanner with a small ceiling (MAX_BUFFER_SIZE is a class
\* attribute that _trim_buffer reads through self), so that the stream
\* overflows the buffer
TrimCeiling == 28

\* marker-free data: n bytes 'X'
Filler(n) == [i \in 1..n |-> 88]

FillerLengths == {5, 30}

TrimItems == ValidFrames \cup {PartialFrame} \cup {Filler(n) : n \in FillerLengths}

TrimInit ==
    /\ mon_max_buffer_size = TrimCeiling
    /\ mon_buffer = <<>>
    /\ mon_latest_status = NoStatus
    /\ mon_delivered = <<>>
    /\ scan_items \in SeqsOf(TrimItems, 1, MaxItems)
    /\ scan_pending = Flatten(scan_items)
    /\ scan_nchunks = 0

(***************************************************************************)
(* DongleConnection (sdk/dongle/connection.py): the Link.                  *)
(*                                                                         *)
(* Threads: the caller of the public methods (User), a second caller that  *)
(* writes (Writer: the status poll or the command sender), the reader      *)
(* threads <<"R", n>> that connect() starts and the reconnect threads      *)
(* <<"K", n>> that set_autoreconnect() and _handle_error() start.  A step  *)
(* is one access to shared state; statements that touch none are merged    *)
(* into the step before them.  A serial handle is a number 1, 2, ...; 0 is *)
(* None.  Chunks are numbered in the order they are read.                  *)
(***************************************************************************)
\* bounds of the Link specification
MaxOpens == 2
MaxReconnects == 1
MaxChunks == 2
MaxUserOps == 2
MaxWrites == 1

User == <<"U", 0>>

Writer == <<"W", 0>>

\* a thread object is one of these slots; a slot whose thread has ended is
\* taken again by the next thread that is started
Readers == {<<"R", 1>>, <<"R", 2>>}

Reconnectors == {<<"K", 1>>}

Threads == {User, Writer} \cup Readers \cup Reconnectors

NoThread == <<"-", 0>>

\* the raw-byte subscribers registered at construction and never removed
\* (Dongle.__init__: the monitor's on_data and the line buffer's sink)
LinkSubscribers == <<1, 2>>

\* threading.Thread.is_alive()
IsAlive(t) == t # NoThread /\ pc[t] # "none"

\* is_connected()
DongleConnection_is_connected == link_connected /\ link_serial # 0

\* a read or a write on handle h succeeds only on an open handle of a
\* device that is still there
HandleUsable(h) == h # 0 /\ h # link_closed /\ dev_available

LinkInit ==
    /\ link_connected = FALSE
    /\ link_active = FALSE
    /\ link_serial = 0
    /\ link_autoreconnect = FALSE
    /\ link_reconnect_thread = NoThread
    /\ link_stop_reconnect = FALSE
    /\ link_reader_thread = NoThread
    /\ link_opened = 0
    /\ link_closed = 0
    /\ link_nreconnect = 0
    /\ link_nread = 0
    /\ link_seen = [s \in 1..Len(LinkSubscribers) |-> <<>>]
    /\ dev_available \in BOOLEAN
    /\ pc = [t \in Threads |-> IF t \in {User, Writer} THEN "idle" ELSE "none"]
    /\ ret = [t \in Threads |-> "-"]
    /\ rd_chunk = [t \in Readers |-> 0]
    /\ rd_idx = [t \in Readers |-> 0]
    /\ u_ops = 0
    /\ w_ops = 0

LinkIdle ==
    /\ link_connected = FALSE
    /\ link_active = FALSE
    /\ link_serial = 0
    /\ link_autoreconnect = FALSE
    /\ link_reconnect_thread = NoThread
    /\ link_stop_reconnect = FALSE
    /\ link_reader_thread = NoThread
    /\ link_opened = 0
    /\ link_closed = 0
    /\ link_nreconnect = 0
    /\ link_nread = 0
    /\ link_seen = [s \in 1..Len(LinkSubscribers) |-> <<>>]
    /\ dev_available = FALSE
    /\ pc = [t \in Threads |-> IF t \in {User, Writer} THEN "idle" ELSE "none"]
    /\ ret = [t \in Threads |-> "-"]
    /\ rd_chunk = [t \in Readers |-> 0]
    /\ rd_idx = [t \in Readers |-> 0]
    /\ u_ops = 0
    /\ w_ops = 0

\* ---- the device is plugged in or pulled out
DevicePlug ==
    /\ dev_available' = ~dev_available
    /\ UNCHANGED <<linkState, linkThreads, linkHistory>>

\* ---- connect(), run by thread t (the User or a reconnect thread)
\* where connect() returns to
\* (to the reconnect loop, to Dongle.connect, or to the User's own code)
ConnectReturn(t, result) ==
    IF t \in Reconnectors THEN (IF result THEN "exit" ELSE "top")
    ELSE IF dgm_call = "connect" THEN (IF result THEN "dg_start" ELSE "dg_auto")
    ELSE "idle"

\* "if self._connected: return True"
AfterConnectCheckOpen(t, connected) == "open"

AfterConnectCheck(t, connected) ==
    IF connected THEN ConnectReturn(t, TRUE) ELSE "open"

Connect_check(t) ==
    /\ pc[t] = "connect"
    /\ pc' = [pc EXCEPT ![t] = AfterConnectCheck(t, link_connected)]
    /\ UNCHANGED <<linkState, dev_available, ret, rd_chunk, rd_idx, linkHistory>>

\* find_single_dongle and serial.Serial(...): no device, no handle; with a
\* device the open may still fail (port busy).  Every failure returns False.
Connect_open_fail(t) ==
    /\ pc[t] = "open"
    /\ pc' = [pc EXCEPT ![t] = ConnectReturn(t, FALSE)]
    /\ UNCHANGED <<linkState, dev_available, ret, rd_chunk, rd_idx, linkHistory>>

\* the reader slots that no running thread has
FreeReaders == {r \in Readers : pc[r] = "none"}

\* serial.Serial(...) has opened the port and is assigned to self._serial,
\* then reset_input_buffer() or reset_output_buffer() raises: False
Connect_reset_fail(t) ==
    /\ pc[t] = "open"
    /\ dev_available
    /\ link_opened < MaxOpens
    /\ link_opened' = link_opened + 1
    /\ link_serial' = link_opened + 1
    /\ pc' = [pc EXCEPT ![t] = ConnectReturn(t, FALSE)]
    /\ UNCHANGED <<link_connected, link_active, link_autoreconnect, link_reconnect_thread,
                   link_stop_reconnect, link_reader_thread, link_closed, link_nreconnect,
                   dev_available, ret, rd_chunk, rd_idx, linkHistory>>

Connect_open_ok(t) ==
    /\ pc[t] = "open"
    /\ dev_available
    /\ link_opened < MaxOpens
    /\ FreeReaders # {}
    /\ link_opened' = link_opened + 1
    /\ link_serial' = link_opened + 1
    /\ pc' = [pc EXCEPT ![t] = "start"]
    /\ UNCHANGED <<link_connected, link_active, link_autoreconnect, link_reconnect_thread,
                   link_stop_reconnect, link_reader_thread, link_closed, link_nreconnect,
                   dev_available, ret, rd_chunk, rd_idx, linkHistory>>

\* the reader thread that the n-th _start_reader_thread() starts
NewReader == CHOOSE r \in FreeReaders : \A q \in FreeReaders : r[2] <= q[2]

\* "self._active = True; self._connected = True; self._start_reader_thread()"
Connect_start(t) ==
    /\ pc[t] = "start"
    /\ FreeReaders # {}
    /\ link_active' = TRUE
    /\ link_connected' = TRUE
    /\ link_reader_thread' = NewReader
    /\ pc' = [pc EXCEPT ![t] = ConnectReturn(t, TRUE), ![NewReader] = "top"]
    /\ UNCHANGED <<link_serial, link_autoreconnect, link_reconnect_thread,
                   link_stop_reconnect, link_opened, link_closed, link_nreconnect,
                   dev_available, ret, rd_chunk, rd_idx, linkHistory>>

\* ---- _handle_error(), run by thread t (a reader or a writer); its first
\* two assignments are part of the step that caught the exception
\* "if self._serial: close; self._serial = None"
HandleError_close(t) ==
    /\ pc[t] = "he_close"
    /\ link_closed' = IF link_serial # 0 THEN link_serial ELSE link_closed
    /\ link_serial' = 0
    /\ pc' = [pc EXCEPT ![t] = "he_reconnect"]
    /\ UNCHANGED <<link_connected, link_active, link_autoreconnect, link_reconnect_thread,
                   link_stop_reconnect, link_reader_thread, link_opened, link_nreconnect,
                   dev_available, ret, rd_chunk, rd_idx, linkHistory>>

NewReconnector == <<"K", 1>>

\* whether a caller that finds these starts a reconnect thread
StartsReconnectNever(enabled) == FALSE

StartsReconnect(enabled) == enabled /\ ~IsAlive(link_reconnect_thread)

\* "if self._autoreconnect: if thread is None or not alive: start"
HandleError_reconnect(t) ==
    /\ pc[t] = "he_reconnect"
    /\ StartsReconnect(link_autoreconnect) =>
           link_nreconnect < MaxReconnects /\ pc[NewReconnector] = "none"
    /\ IF StartsReconnect(link_autoreconnect)
       THEN /\ link_reconnect_thread' = NewReconnector
            /\ link_nreconnect' = link_nreconnect + 1
            /\ pc' = [pc EXCEPT ![t] = ret[t], ![NewReconnector] = "top"]
       ELSE /\ pc' = [pc EXCEPT ![t] = ret[t]]
            /\ UNCHANGED <<link_reconnect_thread, link_nreconnect>>
    /\ ret' = [ret EXCEPT ![t] = "-"]
    /\ UNCHANGED <<link_connected, link_active, link_serial, link_autoreconnect,
                   link_stop_reconnect, link_reader_thread, link_opened, link_closed,
                   dev_available, rd_chunk, rd_idx, linkHistory>>

\* ---- _reader_loop, run by reader thread t
\* "while self._active and self._serial"
Reader_top(t) ==
    /\ t \in Readers
    /\ pc[t] = "top"
    /\ pc' = [pc EXCEPT ![t] = IF link_active /\ link_serial # 0 THEN "read" ELSE "none"]
    /\ UNCHANGED <<linkState, dev_available, ret, rd_chunk, rd_idx, linkHistory>>

\* the subscriber a reader calls next with its chunk
Deliver(seen, sub, chunk) == [seen EXCEPT ![sub] = Append(@, chunk)]

\* self._serial.read(...) returns a chunk: the subscriber list is copied
\* and the first subscriber is called
Reader_read_data(t) ==
    /\ t \in Readers
    /\ pc[t] = "read"
    /\ HandleUsable(link_serial)
    /\ link_nread < MaxChunks
    /\ link_nread' = link_nread + 1
    /\ rd_chunk' = [rd_chunk EXCEPT ![t] = link_nread + 1]
    /\ rd_idx' = [rd_idx EXCEPT ![t] = 1]
    /\ link_seen' = Deliver(link_seen, LinkSubscribers[1], link_nread + 1)
    /\ pc' = [pc EXCEPT ![t] = "callback"]
    /\ UNCHANGED <<linkState, dev_available, ret, u_ops, w_ops>>

\* the read times out with nothing read
Reader_read_empty(t) ==
    /\ t \in Readers
    /\ pc[t] = "read"
    /\ HandleUsable(link_serial)
    /\ pc' = [pc EXCEPT ![t] = "top"]
    /\ UNCHANGED <<linkState, dev_available, ret, rd_chunk, rd_idx, linkHistory>>

\* the callback that runs returns; the next subscriber of the copy is called
Reader_callback(t) ==
    /\ t \in Readers
    /\ pc[t] = "callback"
    /\ IF rd_idx[t] < Len(LinkSubscribers)
       THEN /\ link_seen' = Deliver(link_seen, LinkSubscribers[rd_idx[t] + 1], rd_chunk[t])
            /\ rd_idx' = [rd_idx EXCEPT ![t] = @ + 1]
            /\ UNCHANGED <<pc, rd_chunk>>
       ELSE /\ pc' = [pc EXCEPT ![t] = "top"]
            /\ rd_idx' = [rd_idx EXCEPT ![t] = 0]
            /\ rd_chunk' = [rd_chunk EXCEPT ![t] = 0]
            /\ UNCHANGED link_seen
    /\ UNCHANGED <<linkState, dev_available, ret, link_nread, u_ops, w_ops>>

\* the read raises.  serial.SerialException (the device is gone, the handle
\* was closed): "if self._active: self._handle_error(e)" and break.  Any
\* other exception (self._serial is None: AttributeError; a handle closed
\* under the read): the same handler, and the loop goes on.
Reader_read_raise(t) ==
    /\ t \in Readers
    /\ pc[t] = "read"
    /\ ~HandleUsable(link_serial)
    /\ \E after \in (IF link_serial = 0 THEN {"top"}
                     ELSE IF link_serial = link_closed THEN {"top", "none"}
                     ELSE {"none"}) :
          IF link_active
          THEN /\ link_active' = FALSE
               /\ link_connected' = FALSE
               /\ pc' = [pc EXCEPT ![t] = "he_close"]
               /\ ret' = [ret EXCEPT ![t] = after]
          ELSE /\ pc' = [pc EXCEPT ![t] = after]
               /\ UNCHANGED <<link_active, link_connected, ret>>
    /\ UNCHANGED <<link_serial, link_autoreconnect, link_reconnect_thread,
                   link_stop_reconnect, link_reader_thread, link_opened, link_closed,
                   link_nreconnect, dev_available, rd_chunk, rd_idx, linkHistory>>

\* ---- _reconnect_loop, run by reconnect thread t: one pass reads the stop
\* event, is_connected() and is_dongle_available(); when the device is not
\* there it waits and passes again.  A loop that has left its while loop
\* ("exit") is still alive until the thread has ended.
ReconnectNextBlind(stop, connected, available) ==
    IF stop \/ connected THEN "exit" ELSE "connect"

ReconnectNext(stop, connected, available) ==
    IF stop \/ connected THEN "exit"
    ELSE IF available THEN "connect"
    ELSE "top"

Reconnect_top(t) ==
    /\ t \in Reconnectors
    /\ pc[t] = "top"
    /\ LET next == ReconnectNext(link_stop_reconnect, DongleConnection_is_connected,
                                 dev_available)
       IN  /\ next # "top"
           /\ pc' = [pc EXCEPT ![t] = next]
    /\ UNCHANGED <<linkState, dev_available, ret, rd_chunk, rd_idx, linkHistory>>

\* the last log call of the loop has returned and the thread ends:
\* is_alive() is false from here on
Reconnect_exit(t) ==
    /\ t \in Reconnectors
    /\ pc[t] = "exit"
    /\ pc' = [pc EXCEPT ![t] = "none"]
    /\ UNCHANGED <<linkState, dev_available, ret, rd_chunk, rd_idx, linkHistory>>

\* ---- the public methods, called by the User
User_connect ==
    /\ pc[User] = "idle"
    /\ u_ops < MaxUserOps
    /\ u_ops' = u_ops + 1
    /\ pc' = [pc EXCEPT ![User] = "connect"]
    /\ UNCHANGED <<linkState, dev_available, ret, rd_chunk, rd_idx, link_nread, link_seen, w_ops>>

\* disconnect(): "if not self._connected: return", then the two flags
User_disconnect ==
    /\ pc[User] = "idle"
    /\ u_ops < MaxUserOps
    /\ u_ops' = u_ops + 1
    /\ IF link_connected
       THEN /\ link_active' = FALSE
            /\ link_connected' = FALSE
            /\ pc' = [pc EXCEPT ![User] = "join_reader"]
       ELSE UNCHANGED <<link_active, link_connected, pc>>
    /\ UNCHANGED <<link_serial, link_autoreconnect, link_reconnect_thread,
                   link_stop_reconnect, link_reader_thread, link_opened, link_closed,
                   link_nreconnect, dev_available, ret, rd_chunk, rd_idx,
                   link_nread, link_seen, w_ops>>

\* join(timeout=1.0) returns when the thread has ended, or after the timeout
\* while the thread is held up for longer than that: inside a subscriber's
\* callback, or in a loop whose flag is set again
JoinReturns(t) ==
    \/ ~IsAlive(t)
    \/ IsAlive(t) /\ pc[t] = "callback"
    \/ IsAlive(t) /\ link_active

Disconnect_join ==
    /\ pc[User] = "join_reader"
    /\ JoinReturns(link_reader_thread)
    /\ pc' = [pc EXCEPT ![User] = "close"]
    /\ UNCHANGED <<linkState, dev_available, ret, rd_chunk, rd_idx, linkHistory>>

\* "if self._serial: close; self._serial = None"
Disconnect_close ==
    /\ pc[User] = "close"
    /\ link_closed' = IF link_serial # 0 THEN link_serial ELSE link_closed
    /\ link_serial' = 0
    /\ pc' = [pc EXCEPT ![User] = "idle"]
    /\ UNCHANGED <<link_connected, link_active, link_autoreconnect, link_reconnect_thread,
                   link_stop_reconnect, link_reader_thread, link_opened, link_nreconnect,
                   dev_available, ret, rd_chunk, rd_idx, linkHistory>>

\* set_autoreconnect(True)
User_autoreconnect_on ==
    /\ pc[User] = "idle"
    /\ u_ops < MaxUserOps
    /\ ~link_autoreconnect
    /\ LET starts == StartsReconnect(~DongleConnection_is_connected)
       IN /\ starts => link_nreconnect < MaxReconnects /\ pc[NewReconnector] = "none"
          /\ link_autoreconnect' = TRUE
          /\ link_stop_reconnect' = FALSE
          /\ IF starts
             THEN /\ link_reconnect_thread' = NewReconnector
                  /\ link_nreconnect' = link_nreconnect + 1
                  /\ pc' = [pc EXCEPT ![NewReconnector] = "top"]
             ELSE UNCHANGED <<link_reconnect_thread, link_nreconnect, pc>>
    /\ u_ops' = u_ops + 1
    /\ UNCHANGED <<link_connected, link_active, link_serial, link_reader_thread,
                   link_opened, link_closed, dev_available, ret, rd_chunk, rd_idx,
                   link_nread, link_seen, w_ops>>

\* set_autoreconnect(False): the flag, the stop event, then the join
User_autoreconnect_off ==
    /\ pc[User] = "idle"
    /\ u_ops < MaxUserOps
    /\ link_autoreconnect
    /\ link_autoreconnect' = FALSE
    /\ link_stop_reconnect' = TRUE
    /\ u_ops' = u_ops + 1
    /\ pc' = [pc EXCEPT ![User] = "join_reconnect"]
    /\ UNCHANGED <<link_connected, link_active, link_serial, link_reconnect_thread,
                   link_reader_thread, link_opened, link_closed, link_nreconnect,
                   dev_available, ret, rd_chunk, rd_idx, link_nread, link_seen, w_ops>>

\* the join of the reconnect thread times out while that thread is inside
\* device discovery or the open of the port
Autoreconnect_join ==
    /\ pc[User] = "join_reconnect"
    /\ \/ ~IsAlive(link_reconnect_thread)
       \/ IsAlive(link_reconnect_thread) /\ pc[link_reconnect_thread] = "open"
    /\ link_reconnect_thread' = NoThread
    /\ pc' = [pc EXCEPT ![User] = "idle"]
    /\ UNCHANGED <<link_connected, link_active, link_serial, link_autoreconnect,
                   link_stop_reconnect, link_reader_thread, link_opened, link_closed,
                   link_nreconnect, dev_available, ret, rd_chunk, rd_idx, linkHistory>>

\* ---- write(data), called by the Writer
\* "if not self.is_connected() or self._serial is None: return False"
AfterWriteCheckAlways(connected) == "write"

AfterWriteCheck(connected) == IF connected THEN "write" ELSE "idle"

Writer_write ==
    /\ pc[Writer] = "idle"
    /\ w_ops < MaxWrites
    /\ w_ops' = w_ops + 1
    /\ pc' = [pc EXCEPT ![Writer] = AfterWriteCheck(DongleConnection_is_connected)]
    /\ UNCHANGED <<linkState, dev_available, ret, rd_chunk, rd_idx, link_nread, link_seen, u_ops>>

\* self._serial.write(data); self._serial.flush(): True, or an exception,
\* _handle_error and False
Writer_io ==
    /\ pc[Writer] = "write"
    /\ IF HandleUsable(link_serial)
       THEN /\ pc' = [pc EXCEPT ![Writer] = "idle"]
            /\ UNCHANGED <<link_active, link_connected, ret>>
       ELSE /\ link_active' = FALSE
            /\ link_connected' = FALSE
            /\ pc' = [pc EXCEPT ![Writer] = "he_close"]
            /\ ret' = [ret EXCEPT ![Writer] = "idle"]
    /\ UNCHANGED <<link_serial, link_autoreconnect, link_reconnect_thread,
                   link_stop_reconnect, link_reader_thread, link_opened, link_closed,
                   link_nreconnect, dev_available, rd_chunk, rd_idx, linkHistory>>

\* what a step of the Link leaves alone
LinkFrame == UNCHANGED <<ringVars, scanVars, busVars, orchVars, cqVars, sbVars, prVars, dgmVars, csVars, ordVars>>

NextLink ==
    \/ DevicePlug /\ LinkFrame
    \/ \E t \in {User} \cup Reconnectors : Connect_check(t) /\ LinkFrame
    \/ \E t \in {User} \cup Reconnectors : Connect_open_fail(t) /\ LinkFrame
    \/ \E t \in {User} \cup Reconnectors : Connect_reset_fail(t) /\ LinkFrame
    \/ \E t \in {User} \cup Reconnectors : Connect_open_ok(t) /\ LinkFrame
    \/ \E t \in {User} \cup Reconnectors : Connect_start(t) /\ LinkFrame
    \/ \E t \in {Writer} \cup Readers : HandleError_close(t) /\ LinkFrame
    \/ \E t \in {Writer} \cup Readers : HandleError_reconnect(t) /\ LinkFrame
    \/ \E t \in Readers : Reader_top(t) /\ LinkFrame
    \/ \E t \in Readers : Reader_read_data(t) /\ LinkFrame
    \/ \E t \in Readers : Reader_read_empty(t) /\ LinkFrame
    \/ \E t \in Readers : Reader_callback(t) /\ LinkFrame
    \/ \E t \in Readers : Reader_read_raise(t) /\ LinkFrame
    \/ \E t \in Reconnectors : Reconnect_top(t) /\ LinkFrame
    \/ \E t \in Reconnectors : Reconnect_exit(t) /\ LinkFrame
    \/ User_connect /\ LinkFrame
    \/ User_disconnect /\ LinkFrame
    \/ Disconnect_join /\ LinkFrame
    \/ Disconnect_close /\ LinkFrame
    \/ User_autoreconnect_on /\ LinkFrame
    \/ User_autoreconnect_off /\ LinkFrame
    \/ Autoreconnect_join /\ LinkFrame
    \/ Writer_write /\ LinkFrame
    \/ Writer_io /\ LinkFrame

(***************************************************************************)
(* Dongle (sdk/dongle/manager.py): connect() and disconnect() of the       *)
(* facade over the Link and the StatusMonitor, called by the User with the *)
(* default arguments autoreconnect=True, auto_monitor_status=True.  The    *)
(* methods of the Link that they call are the actions above; of the        *)
(* StatusMonitor only the _running flag that start() and stop() set is     *)
(* kept.                                                                   *)
(***************************************************************************)
\* bound of the Dongle specification
MaxDongleOps == 2

DongleInit ==
    /\ dgm_call = "none"
    /\ dgm_monitor_running = FALSE
    /\ dgm_ops = 0

DongleIdle ==
    /\ dgm_call = "none"
    /\ dgm_monitor_running = FALSE
    /\ dgm_ops = 0

\* Dongle.connect(): "if self._connection.connect():"
Dongle_connect ==
    /\ pc[User] = "idle"
    /\ dgm_ops < MaxDongleOps
    /\ dgm_ops' = dgm_ops + 1
    /\ dgm_call' = "connect"
    /\ pc' = [pc EXCEPT ![User] = "connect"]
    /\ UNCHANGED <<linkState, dev_available, ret, rd_chunk, rd_idx, linkHistory,
                   dgm_monitor_running>>

\* "if auto_monitor_status: self._monitor.start(...)": start() sets _running
\* and starts the monitor thread unless _running is set already
Dongle_monitor_start ==
    /\ pc[User] = "dg_start"
    /\ dgm_monitor_running' = TRUE
    /\ pc' = [pc EXCEPT ![User] = "dg_auto"]
    /\ UNCHANGED <<linkState, dev_available, ret, rd_chunk, rd_idx, linkHistory,
                   dgm_call, dgm_ops>>

\* "self._connection.set_autoreconnect(autoreconnect)" with True, then the
\* return of Dongle.connect()
Dongle_set_autoreconnect ==
    /\ pc[User] = "dg_auto"
    /\ LET starts == ~link_autoreconnect /\ StartsReconnect(~DongleConnection_is_connected)
       IN /\ starts => link_nreconnect < MaxReconnects /\ pc[NewReconnector] = "none"
          /\ link_autoreconnect' = TRUE
          /\ link_stop_reconnect' = IF link_autoreconnect THEN link_stop_reconnect ELSE FALSE
          /\ IF starts
             THEN /\ link_reconnect_thread' = NewReconnector
                  /\ link_nreconnect' = link_nreconnect + 1
                  /\ pc' = [pc EXCEPT ![User] = "idle", ![NewReconnector] = "top"]
             ELSE /\ pc' = [pc EXCEPT ![User] = "idle"]
                  /\ UNCHANGED <<link_reconnect_thread, link_nreconnect>>
    /\ UNCHANGED <<link_connected, link_active, link_serial, link_reader_thread,
                   link_opened, link_closed, dev_available, ret, rd_chunk, rd_idx,
                   linkHistory, dgmVars>>

\* Dongle.disconnect(): "self._connection.set_autoreconnect(False)", which
\* returns at once when the flag is clear already
Dongle_disconnect ==
    /\ pc[User] = "idle"
    /\ dgm_ops < MaxDongleOps
    /\ dgm_ops' = dgm_ops + 1
    /\ dgm_call' = "disconnect"
    /\ IF link_autoreconnect
       THEN /\ link_autoreconnect' = FALSE
            /\ link_stop_reconnect' = TRUE
            /\ pc' = [pc EXCEPT ![User] = "dd_join"]
       ELSE /\ pc' = [pc EXCEPT ![User] = "dd_stop"]
            /\ UNCHANGED <<link_autoreconnect, link_stop_reconnect>>
    /\ UNCHANGED <<link_connected, link_active, link_serial, link_reconnect_thread,
                   link_reader_thread, link_opened, link_closed, link_nreconnect,
                   dev_available, ret, rd_chunk, rd_idx, linkHistory, dgm_monitor_running>>

\* the join(timeout=1.0) of set_autoreconnect(False) and
\* "self._reconnect_thread = None", as in Autoreconnect_join
Dongle_disconnect_join ==
    /\ pc[User] = "dd_join"
    /\ \/ ~IsAlive(link_reconnect_thread)
       \/ IsAlive(link_reconnect_thread) /\ pc[link_reconnect_thread] = "open"
    /\ link_reconnect_thread' = NoThread
    /\ pc' = [pc EXCEPT ![User] = "dd_stop"]
    /\ UNCHANGED <<link_connected, link_active, link_serial, link_autoreconnect,
                   link_stop_reconnect, link_reader_thread, link_opened, link_closed,
                   link_nreconnect, dev_available, ret, rd_chunk, rd_idx, linkHistory,
                   dgmVars>>

\* "self._monitor.stop()"
Dongle_monitor_stop ==
    /\ pc[User] = "dd_stop"
    /\ dgm_monitor_running' = FALSE
    /\ pc' = [pc EXCEPT ![User] = "dd_disconnect"]
    /\ UNCHANGED <<linkState, dev_available, ret, rd_chunk, rd_idx, linkHistory,
                   dgm_call, dgm_ops>>

\* "self._connection.disconnect()": "if not self._connected: return", then
\* the two flags; the join and the close are Disconnect_join and
\* Disconnect_close
Dongle_disconnect_link ==
    /\ pc[User] = "dd_disconnect"
    /\ IF link_connected
       THEN /\ link_active' = FALSE
            /\ link_connected' = FALSE
            /\ pc' = [pc EXCEPT ![User] = "join_reader"]
       ELSE /\ pc' = [pc EXCEPT ![User] = "idle"]
            /\ UNCHANGED <<link_active, link_connected>>
    /\ UNCHANGED <<link_serial, link_autoreconnect, link_reconnect_thread,
                   link_stop_reconnect, link_reader_thread, link_opened, link_closed,
                   link_nreconnect, dev_available, ret, rd_chunk, rd_idx, linkHistory,
                   dgmVars>>

\* what a step of the Dongle or of the Link under it leaves alone
DongleFrame == UNCHANGED <<ringVars, scanVars, busVars, orchVars, cqVars, sbVars, prVars, csVars, ordVars>>

NextDongle ==
    \/ DevicePlug /\ LinkFrame
    \/ \E t \in {User} \cup Reconnectors : Connect_check(t) /\ LinkFrame
    \/ \E t \in {User} \cup Reconnectors : Connect_open_fail(t) /\ LinkFrame
    \/ \E t \in {User} \cup Reconnectors : Connect_reset_fail(t) /\ LinkFrame
    \/ \E t \in {User} \cup Reconnectors : Connect_open_ok(t) /\ LinkFrame
    \/ \E t \in {User} \cup Reconnectors : Connect_start(t) /\ LinkFrame
    \/ \E t \in Readers : HandleError_close(t) /\ LinkFrame
    \/ \E t \in Readers : HandleError_reconnect(t) /\ LinkFrame
    \/ \E t \in Readers : Reader_top(t) /\ LinkFrame
    \/ \E t \in Readers : Reader_read_data(t) /\ LinkFrame
    \/ \E t \in Readers : Reader_read_empty(t) /\ LinkFrame
    \/ \E t \in Readers : Reader_callback(t) /\ LinkFrame
    \/ \E t \in Readers : Reader_read_raise(t) /\ LinkFrame
    \/ \E t \in Reconnectors : Reconnect_top(t) /\ LinkFrame
    \/ \E t \in Reconnectors : Reconnect_exit(t) /\ LinkFrame
    \/ Disconnect_join /\ LinkFrame
    \/ Disconnect_close /\ LinkFrame
    \/ Dongle_connect /\ DongleFrame
    \/ Dongle_monitor_start /\ DongleFrame
    \/ Dongle_set_autoreconnect /\ DongleFrame
    \/ Dongle_disconnect /\ DongleFrame
    \/ Dongle_disconnect_join /\ DongleFrame
    \/ Dongle_monitor_stop /\ DongleFrame
    \/ Dongle_disconnect_link /\ DongleFrame

(***************************************************************************)
(* Subscriber lists: DongleConnection.subscribe_data and                   *)
(* _notify_data_callbacks ("data"), StatusMonitor.subscribe_status and     *)
(* _notify_callbacks ("status"), SerialTransport.subscribe_state and       *)
(* _notify_subscribers ("state").  The three are the same code up to two   *)
(* differences: the status broadcast runs inside _process_chunk, which     *)
(* holds the buffer lock, and subscribe_state calls the new callback once  *)
(* with a snapshot before it returns the disposer.                         *)
(*                                                                         *)
(* Threads: publishers <<"P", n>> that broadcast and clients <<"C", c>>,   *)
(* client c owning callback c.  A callback that a publisher calls returns, *)
(* or calls its own disposer, or subscribes one more callback (Passive,    *)
(* which only returns).  threading.Lock is not reentrant: a lock is taken  *)
(* only when nobody owns it, its owner included.                           *)
(***************************************************************************)
\* bounds of the subscriber-list specification
MaxPublishes == 2
MaxClientOps == 2
MaxNested == 1

BusKinds == {"data", "status", "state"}

Publishers == {<<"P", 1>>, <<"P", 2>>}

Owned == {1, 2}

Passive == 3

Clients == {<<"C", c>> : c \in Owned}

BusThreads == Publishers \cup Clients

\* list.remove(callback) after "if callback in list": the first occurrence
RECURSIVE ListRemove(_, _)
ListRemove(list, c) ==
    IF list = <<>> THEN <<>>
    ELSE IF Head(list) = c THEN Tail(list)
    ELSE <<Head(list)>> \o ListRemove(Tail(list), c)

\* the owner of the subscriber lock when "with lock: copy = list(...)" is
\* left: the lock is released before the first callback is called
LockAfterCopyHeld(p) == p

LockAfterCopy(p) == NoThread

BusInit ==
    /\ bus_kind \in BusKinds
    /\ bus_subscribers = <<>>
    /\ bus_lock = NoThread
    /\ bus_buffer_lock = NoThread
    /\ bus_pc = [t \in BusThreads |-> "idle"]
    /\ bus_copy = [p \in Publishers |-> <<>>]
    /\ bus_idx = [p \in Publishers |-> 0]
    /\ bus_handle = [c \in Owned |-> "none"]
    /\ bus_npub = 0
    /\ bus_nops = 0
    /\ bus_nnested = 0
    /\ bus_raised = [p \in Publishers |-> FALSE]
    /\ bus_first = "none"

BusIdle ==
    /\ bus_kind = "data"
    /\ bus_subscribers = <<>>
    /\ bus_lock = NoThread
    /\ bus_buffer_lock = NoThread
    /\ bus_pc = [t \in BusThreads |-> "idle"]
    /\ bus_copy = [p \in Publishers |-> <<>>]
    /\ bus_idx = [p \in Publishers |-> 0]
    /\ bus_handle = [c \in Owned |-> "none"]
    /\ bus_npub = 0
    /\ bus_nops = 0
    /\ bus_nnested = 0
    /\ bus_raised = [p \in Publishers |-> FALSE]
    /\ bus_first = "none"

\* "with lock:" is entered by thread t at position from
LockAcquire(t, from, to) ==
    /\ bus_pc[t] = from
    /\ bus_lock = NoThread
    /\ bus_lock' = t
    /\ bus_pc' = [bus_pc EXCEPT ![t] = to]
    /\ UNCHANGED <<bus_kind, bus_subscribers, bus_buffer_lock, bus_copy, bus_idx,
                   bus_handle, bus_npub, bus_nops, bus_nnested, bus_raised, bus_first>>

\* ---- a broadcast by publisher p
\* the status broadcast is entered through _process_chunk
Publish_begin(p) ==
    /\ bus_pc[p] = "idle"
    /\ bus_npub < MaxPublishes
    /\ bus_npub' = bus_npub + 1
    /\ bus_pc' = [bus_pc EXCEPT ![p] = IF bus_kind = "status" THEN "enter" ELSE "acquire"]
    /\ UNCHANGED <<bus_kind, bus_subscribers, bus_lock, bus_buffer_lock, bus_copy,
                   bus_idx, bus_handle, bus_nops, bus_nnested, bus_raised, bus_first>>

\* "with self._buffer_lock:" of _process_chunk
Publish_enter(p) ==
    /\ bus_pc[p] = "enter"
    /\ bus_buffer_lock = NoThread
    /\ bus_buffer_lock' = p
    /\ bus_pc' = [bus_pc EXCEPT ![p] = "acquire"]
    /\ UNCHANGED <<bus_kind, bus_subscribers, bus_lock, bus_copy, bus_idx,
                   bus_handle, bus_npub, bus_nops, bus_nnested, bus_raised, bus_first>>

Publish_acquire(p) == LockAcquire(p, "acquire", "copy")

\* "callbacks = list(self._..._callbacks)" and the end of the with block
Publish_copy(p) ==
    /\ bus_pc[p] = "copy"
    /\ bus_copy' = [bus_copy EXCEPT ![p] = bus_subscribers]
    /\ bus_idx' = [bus_idx EXCEPT ![p] = 0]
    /\ bus_lock' = LockAfterCopy(p)
    /\ bus_pc' = [bus_pc EXCEPT ![p] = "loop"]
    /\ UNCHANGED <<bus_kind, bus_subscribers, bus_buffer_lock, bus_handle,
                   bus_npub, bus_nops, bus_nnested, bus_raised, bus_first>>

\* "for callback in callbacks: callback(...)": the next callback is called
Publish_invoke(p) ==
    /\ bus_pc[p] = "loop"
    /\ bus_idx[p] < Len(bus_copy[p])
    /\ bus_idx' = [bus_idx EXCEPT ![p] = @ + 1]
    /\ bus_pc' = [bus_pc EXCEPT ![p] = "cb"]
    /\ UNCHANGED <<bus_kind, bus_subscribers, bus_lock, bus_buffer_lock, bus_copy,
                   bus_handle, bus_npub, bus_nops, bus_nnested, bus_raised, bus_first>>

\* the loop is over; _process_chunk leaves its with block
Publish_finish(p) ==
    /\ bus_pc[p] = "loop"
    /\ bus_idx[p] = Len(bus_copy[p])
    /\ bus_copy' = [bus_copy EXCEPT ![p] = <<>>]
    /\ bus_idx' = [bus_idx EXCEPT ![p] = 0]
    /\ bus_buffer_lock' = IF bus_kind = "status" THEN NoThread ELSE bus_buffer_lock
    /\ bus_pc' = [bus_pc EXCEPT ![p] = "idle"]
    /\ bus_raised' = [bus_raised EXCEPT ![p] = FALSE]
    /\ UNCHANGED <<bus_kind, bus_subscribers, bus_lock, bus_handle,
                   bus_npub, bus_nops, bus_nnested, bus_first>>

\* the callback that publisher p is calling
Current(p) == bus_copy[p][bus_idx[p]]

\* ---- what the callback that p is calling does
Callback_return(p) ==
    /\ bus_pc[p] = "cb"
    /\ bus_pc' = [bus_pc EXCEPT ![p] = "loop"]
    /\ UNCHANGED <<bus_kind, bus_subscribers, bus_lock, bus_buffer_lock, bus_copy,
                   bus_idx, bus_handle, bus_npub, bus_nops, bus_nnested, bus_raised, bus_first>>

\* where the publisher goes on when the callback it called has raised:
\* "except Exception" inside the for loop logs and the loop goes on
AfterRaiseAbort(p) == "idle"

AfterRaise(p) == "loop"

\* it raises an exception
Callback_raise(p) ==
    /\ bus_pc[p] = "cb"
    /\ bus_raised' = [bus_raised EXCEPT ![p] = TRUE]
    /\ bus_pc' = [bus_pc EXCEPT ![p] = AfterRaise(p)]
    /\ UNCHANGED <<bus_kind, bus_subscribers, bus_lock, bus_buffer_lock, bus_copy,
                   bus_idx, bus_handle, bus_npub, bus_nops, bus_nnested, bus_first>>

\* it calls its own disposer
Callback_unsubscribe(p) ==
    /\ bus_pc[p] = "cb"
    /\ Current(p) \in Owned
    /\ bus_handle[Current(p)] = "live"
    /\ bus_nnested < MaxNested
    /\ bus_nnested' = bus_nnested + 1
    /\ bus_pc' = [bus_pc EXCEPT ![p] = "cb_unsub_acquire"]
    /\ UNCHANGED <<bus_kind, bus_subscribers, bus_lock, bus_buffer_lock, bus_copy,
                   bus_idx, bus_handle, bus_npub, bus_nops, bus_raised, bus_first>>

Callback_unsubscribe_acquire(p) == LockAcquire(p, "cb_unsub_acquire", "cb_unsub")

\* "if callback in list: list.remove(callback)"; the disposer and then the
\* callback return
Callback_unsubscribe_remove(p) ==
    /\ bus_pc[p] = "cb_unsub"
    /\ bus_subscribers' = ListRemove(bus_subscribers, Current(p))
    /\ bus_lock' = NoThread
    /\ bus_handle' = [bus_handle EXCEPT ![Current(p)] = "returned"]
    /\ bus_pc' = [bus_pc EXCEPT ![p] = "loop"]
    /\ UNCHANGED <<bus_kind, bus_buffer_lock, bus_copy, bus_idx, bus_npub,
                   bus_nops, bus_nnested, bus_raised, bus_first>>

\* it subscribes one more callback
Callback_subscribe(p) ==
    /\ bus_pc[p] = "cb"
    /\ bus_nnested < MaxNested
    /\ bus_nnested' = bus_nnested + 1
    /\ bus_pc' = [bus_pc EXCEPT ![p] = "cb_sub_acquire"]
    /\ UNCHANGED <<bus_kind, bus_subscribers, bus_lock, bus_buffer_lock, bus_copy,
                   bus_idx, bus_handle, bus_npub, bus_nops, bus_raised, bus_first>>

Callback_subscribe_acquire(p) == LockAcquire(p, "cb_sub_acquire", "cb_sub")

\* "list.append(callback)"; subscribe_state then calls the new callback,
\* which returns; subscribe and then the callback return
Callback_subscribe_append(p) ==
    /\ bus_pc[p] = "cb_sub"
    /\ bus_subscribers' = Append(bus_subscribers, Passive)
    /\ bus_lock' = NoThread
    /\ bus_pc' = [bus_pc EXCEPT ![p] = "loop"]
    /\ UNCHANGED <<bus_kind, bus_buffer_lock, bus_copy, bus_idx, bus_handle,
                   bus_npub, bus_nops, bus_nnested, bus_raised, bus_first>>

\* ---- client t subscribes its callback and calls the disposer it got
Owner(c) == <<"C", c>>

Client_subscribe(c) ==
    /\ bus_pc[Owner(c)] = "idle"
    /\ bus_handle[c] # "live"
    /\ bus_nops < MaxClientOps
    /\ bus_nops' = bus_nops + 1
    /\ bus_pc' = [bus_pc EXCEPT ![Owner(c)] = "sub_acquire"]
    /\ UNCHANGED <<bus_kind, bus_subscribers, bus_lock, bus_buffer_lock, bus_copy,
                   bus_idx, bus_handle, bus_npub, bus_nnested, bus_raised, bus_first>>

Client_subscribe_acquire(c) == LockAcquire(Owner(c), "sub_acquire", "sub")

\* "list.append(callback)" and the end of the with block; subscribe_data
\* and subscribe_status then return the disposer, subscribe_state first
\* calls the callback
Client_subscribe_append(c) ==
    /\ bus_pc[Owner(c)] = "sub"
    /\ bus_subscribers' = Append(bus_subscribers, c)
    /\ bus_lock' = NoThread
    /\ bus_handle' = [bus_handle EXCEPT ![c] = IF bus_kind = "state" THEN @ ELSE "live"]
    /\ bus_pc' = [bus_pc EXCEPT ![Owner(c)] = IF bus_kind = "state" THEN "sub_call" ELSE "idle"]
    /\ UNCHANGED <<bus_kind, bus_buffer_lock, bus_copy, bus_idx,
                   bus_npub, bus_nops, bus_nnested, bus_raised, bus_first>>

\* "callback(state)" of subscribe_state, on the client's thread, and
\* "return unsubscribe": the client holds the disposer
\* what subscribe_state hands to its caller after the first call, which
\* returned or raised ("except Exception: pass")
AfterFirstCallLost(outcome) == IF outcome = "raised" THEN "none" ELSE "live"
AfterFirstCall(outcome) == "live"

Client_subscribe_call(c, outcome) ==
    /\ bus_pc[Owner(c)] = "sub_call"
    /\ bus_first' = outcome
    /\ bus_handle' = [bus_handle EXCEPT ![c] = AfterFirstCall(outcome)]
    /\ bus_pc' = [bus_pc EXCEPT ![Owner(c)] = "idle"]
    /\ UNCHANGED <<bus_kind, bus_subscribers, bus_lock, bus_buffer_lock, bus_copy,
                   bus_idx, bus_npub, bus_nops, bus_nnested, bus_raised>>

Client_unsubscribe(c) ==
    /\ bus_pc[Owner(c)] = "idle"
    /\ bus_handle[c] = "live"
    /\ bus_nops < MaxClientOps
    /\ bus_nops' = bus_nops + 1
    /\ bus_pc' = [bus_pc EXCEPT ![Owner(c)] = "unsub_acquire"]
    /\ UNCHANGED <<bus_kind, bus_subscribers, bus_lock, bus_buffer_lock, bus_copy,
                   bus_idx, bus_handle, bus_npub, bus_nnested, bus_raised, bus_first>>

Client_unsubscribe_acquire(c) == LockAcquire(Owner(c), "unsub_acquire", "unsub")

\* "if callback in list: list.remove(callback)"; the disposer returns
Client_unsubscribe_remove(c) ==
    /\ bus_pc[Owner(c)] = "unsub"
    /\ bus_subscribers' = ListRemove(bus_subscribers, c)
    /\ bus_lock' = NoThread
    /\ bus_handle' = [bus_handle EXCEPT ![c] = "returned"]
    /\ bus_pc' = [bus_pc EXCEPT ![Owner(c)] = "idle"]
    /\ UNCHANGED <<bus_kind, bus_buffer_lock, bus_copy, bus_idx, bus_npub,
                   bus_nops, bus_nnested, bus_raised, bus_first>>

\* what a step of a subscriber list leaves alone
BusFrame == UNCHANGED <<ringVars, scanVars, linkVars, orchVars, cqVars, sbVars, prVars, dgmVars, csVars, ordVars>>

NextBus ==
    \/ \E p \in Publishers : Publish_begin(p) /\ BusFrame
    \/ \E p \in Publishers : Publish_enter(p) /\ BusFrame
    \/ \E p \in Publishers : Publish_acquire(p) /\ BusFrame
    \/ \E p \in Publishers : Publish_copy(p) /\ BusFrame
    \/ \E p \in Publishers : Publish_invoke(p) /\ BusFrame
    \/ \E p \in Publishers : Publish_finish(p) /\ BusFrame
    \/ \E p \in Publishers : Callback_return(p) /\ BusFrame
    \/ \E p \in Publishers : Callback_raise(p) /\ BusFrame
    \/ \E p \in Publishers : Callback_unsubscribe(p) /\ BusFrame
    \/ \E p \in Publishers : Callback_unsubscribe_acquire(p) /\ BusFrame
    \/ \E p \in Publishers : Callback_unsubscribe_remove(p) /\ BusFrame
    \/ \E p \in Publishers : Callback_subscribe(p) /\ BusFrame
    \/ \E p \in Publishers : Callback_subscribe_acquire(p) /\ BusFrame
    \/ \E p \in Publishers : Callback_subscribe_append(p) /\ BusFrame
    \/ \E c \in Owned : Client_subscribe(c) /\ BusFrame
    \/ \E c \in Owned : Client_subscribe_acquire(c) /\ BusFrame
    \/ \E c \in Owned : Client_subscribe_append(c) /\ BusFrame
    \/ \E c \in Owned, outcome \in {"returned", "raised"} : Client_subscribe_call(c, outcome) /\ BusFrame
    \/ \E c \in Owned : Client_unsubscribe(c) /\ BusFrame
    \/ \E c \in Owned : Client_unsubscribe_acquire(c) /\ BusFrame
    \/ \E c \in Owned : Client_unsubscribe_remove(c) /\ BusFrame

\* ---- StatusMonitor.get_buffer_size() and clear_buffer(): the two public
\* methods that take the buffer lock, called by a client on its own thread
\* or by the status callback that publisher p is calling
Client_buffer_size(c) ==
    /\ bus_pc[Owner(c)] = "idle"
    /\ bus_nops < MaxClientOps
    /\ bus_nops' = bus_nops + 1
    /\ bus_pc' = [bus_pc EXCEPT ![Owner(c)] = "buf_acquire"]
    /\ UNCHANGED <<bus_kind, bus_subscribers, bus_lock, bus_buffer_lock, bus_copy,
                   bus_idx, bus_handle, bus_npub, bus_nnested, bus_raised, bus_first>>

Callback_buffer_size(p) ==
    /\ bus_pc[p] = "cb"
    /\ bus_nnested < MaxNested
    /\ bus_nnested' = bus_nnested + 1
    /\ bus_pc' = [bus_pc EXCEPT ![p] = "buf_acquire"]
    /\ UNCHANGED <<bus_kind, bus_subscribers, bus_lock, bus_buffer_lock, bus_copy,
                   bus_idx, bus_handle, bus_npub, bus_nops, bus_raised, bus_first>>

\* "with self._buffer_lock:"
Buffer_acquire(t) ==
    /\ bus_pc[t] = "buf_acquire"
    /\ bus_buffer_lock = NoThread
    /\ bus_buffer_lock' = t
    /\ bus_pc' = [bus_pc EXCEPT ![t] = "buf"]
    /\ UNCHANGED <<bus_kind, bus_subscribers, bus_lock, bus_copy, bus_idx,
                   bus_handle, bus_npub, bus_nops, bus_nnested, bus_raised, bus_first>>

\* "return len(self._buffer)" or "self._buffer.clear()" and the end of the
\* with block; the method returns, to the client or into the callback,
\* which returns in its turn
Buffer_release(t) ==
    /\ bus_pc[t] = "buf"
    /\ bus_buffer_lock' = NoThread
    /\ bus_pc' = [bus_pc EXCEPT ![t] = IF t \in Publishers THEN "loop" ELSE "idle"]
    /\ UNCHANGED <<bus_kind, bus_subscribers, bus_lock, bus_copy, bus_idx,
                   bus_handle, bus_npub, bus_nops, bus_nnested, bus_raised, bus_first>>

\* the status subscriber list with the buffer lock of its StatusMonitor
StatusInit == BusInit /\ bus_kind = "status"

NextStatus ==
    \/ \E p \in Publishers : Publish_begin(p) /\ BusFrame
    \/ \E p \in Publishers : Publish_enter(p) /\ BusFrame
    \/ \E p \in Publishers : Publish_acquire(p) /\ BusFrame
    \/ \E p \in Publishers : Publish_copy(p) /\ BusFrame
    \/ \E p \in Publishers : Publish_invoke(p) /\ BusFrame
    \/ \E p \in Publishers : Publish_finish(p) /\ BusFrame
    \/ \E p \in Publishers : Callback_return(p) /\ BusFrame
    \/ \E p \in Publishers : Callback_raise(p) /\ BusFrame
    \/ \E p \in Publishers : Callback_unsubscribe(p) /\ BusFrame
    \/ \E p \in Publishers : Callback_unsubscribe_acquire(p) /\ BusFrame
    \/ \E p \in Publishers : Callback_unsubscribe_remove(p) /\ BusFrame
    \/ \E p \in Publishers : Callback_subscribe(p) /\ BusFrame
    \/ \E p \in Publishers : Callback_subscribe_acquire(p) /\ BusFrame
    \/ \E p \in Publishers : Callback_subscribe_append(p) /\ BusFrame
    \/ \E p \in Publishers : Callback_buffer_size(p) /\ BusFrame
    \/ \E c \in Owned : Client_subscribe(c) /\ BusFrame
    \/ \E c \in Owned : Client_subscribe_acquire(c) /\ BusFrame
    \/ \E c \in Owned : Client_subscribe_append(c) /\ BusFrame
    \/ \E c \in Owned : Client_unsubscribe(c) /\ BusFrame
    \/ \E c \in Owned : Client_unsubscribe_acquire(c) /\ BusFrame
    \/ \E c \in Owned : Client_unsubscribe_remove(c) /\ BusFrame
    \/ \E c \in Owned : Client_buffer_size(c) /\ BusFrame
    \/ \E t \in BusThreads : Buffer_acquire(t) /\ BusFrame
    \/ \E t \in BusThreads : Buffer_release(t) /\ BusFrame

(***************************************************************************)
(* SerialTransport (sdk/transport/serial.py): the command queue, the       *)
(* sender loop with its rate limit, the reader loop, connect and           *)
(* disconnect, and the publishing of snapshots to the state subscribers.   *)
(*                                                                         *)
(* Time is counted in ticks of 5 ms.  Only two distances matter to the     *)
(* rate limit, the time since _last_send_time and the time since the last  *)
(* write completed, and both only up to the minimum interval, so they are  *)
(* kept as counters that stop at MinSendInterval.  The Dongle below the    *)
(* transport is its environment: its link can drop, come back while        *)
(* auto-reconnect is on, and its latest status can change.                 *)
(***************************************************************************)
MinSendInterval == 2   \* self._min_send_interval = 0.01 s, in ticks
MaxCommands == 2       \* how many commands the Producer puts
MaxCalls == 3          \* how many connect() and disconnect() calls the Caller makes

Caller == <<"C", 0>>                     \* the thread calling connect() and disconnect()
Producer == <<"Q", 0>>                   \* the thread calling send_command()
Senders == {<<"S", 1>>, <<"S", 2>>}      \* the threads running _sender_loop
Pumps == {<<"T", 1>>, <<"T", 2>>}        \* the threads running the transport's _reader_loop
OrchThreads == {Caller, Producer} \cup Senders \cup Pumps
Notifiers == {Caller} \cup Pumps         \* the threads that call _notify_subscribers
StateSubscribers == <<1, 2>>             \* the callbacks of a transport with two state subscribers

NoPub == [snap |-> FALSE, idx |-> 0, ret |-> "-", by |-> "-"]

OrchAlive(t) == t # NoThread /\ tr_pc[t] # "none"
FreeSenders == {s \in Senders : tr_pc[s] = "none"}
FreePumps == {r \in Pumps : tr_pc[r] = "none"}
NewSender == CHOOSE s \in FreeSenders : \A q \in FreeSenders : s[2] <= q[2]
NewPump == CHOOSE r \in FreePumps : \A q \in FreePumps : r[2] <= q[2]
UpTo(n, limit) == IF n < limit THEN n ELSE limit

OrchInit(subscribers) ==
    /\ tr_subscribers = subscribers
    /\ tr_connected = FALSE
    /\ tr_active = FALSE
    /\ tr_command_queue = <<>>
    /\ tr_sender_thread = NoThread
    /\ tr_reader_thread = NoThread
    /\ tr_elapsed = MinSendInterval
    /\ sb_connected = FALSE
    /\ dg_connected = FALSE
    /\ dg_autoreconnect = FALSE
    /\ tr_pc = [t \in OrchThreads |-> IF t \in {Caller, Producer} THEN "idle" ELSE "none"]
    /\ tr_command = [s \in Senders |-> 0]
    /\ tr_sleep = [s \in Senders |-> 0]
    /\ tr_pub = [t \in Notifiers |-> NoPub]
    /\ tr_naccepted = 0
    /\ tr_sent = <<>>
    /\ tr_since_write = MinSendInterval
    /\ tr_closed = FALSE
    /\ tr_ops = 0
    /\ tr_radio = FALSE

OrchIdle == OrchInit(<<>>)

\* ---- the environment: time, and the Dongle
Tick ==
    /\ \/ tr_elapsed < MinSendInterval
       \/ tr_since_write < MinSendInterval
       \/ \E s \in Senders : tr_sleep[s] > 0
    /\ tr_elapsed' = UpTo(tr_elapsed + 1, MinSendInterval)
    /\ tr_since_write' = UpTo(tr_since_write + 1, MinSendInterval)
    /\ tr_sleep' = [s \in Senders |-> IF tr_sleep[s] > 0 THEN tr_sleep[s] - 1 ELSE 0]
    /\ UNCHANGED <<tr_connected, tr_active, tr_command_queue, tr_sender_thread,
                   tr_reader_thread, sb_connected, tr_subscribers, orchDongle, tr_pc, tr_command, tr_pub,
                   tr_naccepted, tr_sent, tr_closed, tr_ops, tr_radio>>

Dongle_lost ==
    /\ dg_connected
    /\ dg_connected' = FALSE
    /\ UNCHANGED <<orchState, dg_autoreconnect, orchThreads, orchHistory>>

Dongle_back ==
    /\ ~dg_connected
    /\ dg_autoreconnect
    /\ dg_connected' = TRUE
    /\ UNCHANGED <<orchState, dg_autoreconnect, orchThreads, orchHistory>>

\* radio: what the latest status of the Dongle says
Dongle_is_glove_connected(radio) == dg_connected /\ radio

\* ---- send_command
SendCommand_check ==
    /\ tr_pc[Producer] = "idle"
    /\ tr_naccepted < MaxCommands
    /\ tr_pc' = [tr_pc EXCEPT ![Producer] = IF tr_connected THEN "put" ELSE "idle"]
    /\ UNCHANGED <<orchState, orchDongle, tr_command, tr_sleep, tr_pub, orchHistory>>

SendCommand_put ==
    /\ tr_pc[Producer] = "put"
    /\ tr_command_queue' = Append(tr_command_queue, tr_naccepted + 1)
    /\ tr_naccepted' = tr_naccepted + 1
    /\ tr_pc' = [tr_pc EXCEPT ![Producer] = "idle"]
    /\ UNCHANGED <<tr_connected, tr_active, tr_sender_thread, tr_reader_thread, tr_elapsed,
                   sb_connected, tr_subscribers, orchDongle, tr_command, tr_sleep, tr_pub,
                   tr_sent, tr_since_write, tr_closed, tr_ops, tr_radio>>

\* ---- _sender_loop
SleepFor(elapsed) == IF elapsed < MinSendInterval THEN MinSendInterval - elapsed ELSE 0

Sender_get(s) ==
    /\ tr_pc[s] = "get"
    /\ tr_command_queue # <<>>
    /\ tr_command_queue' = Tail(tr_command_queue)
    /\ IF Head(tr_command_queue) = 0
          THEN /\ tr_pc' = [tr_pc EXCEPT ![s] = "none"]
               /\ UNCHANGED <<tr_command, tr_sleep, tr_radio>>
          ELSE /\ tr_command' = [tr_command EXCEPT ![s] = Head(tr_command_queue)]
               /\ tr_sleep' = [tr_sleep EXCEPT ![s] = SleepFor(tr_elapsed)]
               /\ tr_pc' = [tr_pc EXCEPT ![s] = IF SleepFor(tr_elapsed) > 0 THEN "sleep" ELSE "write"]
    /\ UNCHANGED <<tr_connected, tr_active, tr_sender_thread, tr_reader_thread, tr_elapsed,
                   sb_connected, tr_subscribers, orchDongle, tr_pub, orchHistory>>

Sender_wake(s) ==
    /\ tr_pc[s] = "sleep"
    /\ tr_sleep[s] = 0
    /\ tr_pc' = [tr_pc EXCEPT ![s] = "write"]
    /\ UNCHANGED <<orchState, orchDongle, tr_command, tr_sleep, tr_pub, orchHistory>>

Sender_write(s) ==
    /\ tr_pc[s] = "write"
    /\ tr_sent' = Append(tr_sent, tr_command[s])
    /\ tr_pc' = [tr_pc EXCEPT ![s] = "writing"]
    /\ UNCHANGED <<orchState, orchDongle, tr_command, tr_sleep, tr_pub,
                   tr_naccepted, tr_since_write, tr_closed, tr_ops, tr_radio>>

Sender_written(s) ==
    /\ tr_pc[s] = "writing"
    /\ tr_since_write' = 0
    /\ tr_pc' = [tr_pc EXCEPT ![s] = "stamp"]
    /\ UNCHANGED <<orchState, orchDongle, tr_command, tr_sleep, tr_pub,
                   tr_naccepted, tr_sent, tr_closed, tr_ops, tr_radio>>

Sender_stamp(s) ==
    /\ tr_pc[s] = "stamp"
    /\ tr_elapsed' = 0
    /\ tr_command' = [tr_command EXCEPT ![s] = 0]
    /\ tr_pc' = [tr_pc EXCEPT ![s] = "get"]
    /\ UNCHANGED <<tr_connected, tr_active, tr_command_queue, tr_sender_thread,
                   tr_reader_thread, sb_connected, tr_subscribers, orchDongle, tr_sleep, tr_pub, orchHistory>>

\* ---- _notify_subscribers: take a snapshot, copy the list, call the copy one by one
Notify(t, ret_, by_) == [tr_pub EXCEPT ![t] = [snap |-> FALSE, idx |-> 0, ret |-> ret_, by |-> by_]]

NotifyReturn(t) ==
    /\ tr_pub' = [tr_pub EXCEPT ![t] = NoPub]
    /\ tr_pc' = [tr_pc EXCEPT ![t] = tr_pub[t].ret]
    /\ tr_closed' = (tr_closed \/ tr_pub[t].by = "disconnect")

Notify_begin(t) ==
    /\ tr_pc[t] = "notify"
    /\ IF tr_subscribers = <<>>
          THEN NotifyReturn(t)
          ELSE /\ tr_pub' = [tr_pub EXCEPT ![t].snap = sb_connected, ![t].idx = 1]
               /\ tr_pc' = [tr_pc EXCEPT ![t] = "cb"]
               /\ UNCHANGED tr_closed
    /\ UNCHANGED <<orchState, orchDongle, tr_command, tr_sleep,
                   tr_naccepted, tr_sent, tr_since_write, tr_ops, tr_radio>>

Notify_next(t) ==
    /\ tr_pc[t] = "cb"
    /\ IF tr_pub[t].idx < Len(tr_subscribers)
          THEN /\ tr_pub' = [tr_pub EXCEPT ![t].idx = @ + 1]
               /\ UNCHANGED <<tr_pc, tr_closed>>
          ELSE NotifyReturn(t)
    /\ UNCHANGED <<orchState, orchDongle, tr_command, tr_sleep,
                   tr_naccepted, tr_sent, tr_since_write, tr_ops, tr_radio>>

\* ---- _reader_loop and _check_dongle_status
Pump_top(r) ==
    /\ tr_pc[r] = "top"
    /\ tr_pc' = [tr_pc EXCEPT ![r] = IF tr_active THEN "check" ELSE "none"]
    /\ UNCHANGED <<orchState, orchDongle, tr_command, tr_sleep, tr_pub, orchHistory>>

\* the value _check_dongle_status gives the flag: False when the Dongle is
\* not connected, else what is_glove_connected says
CheckedFlagStatusOnly(radio) == radio
CheckedFlag(radio) == IF dg_connected THEN Dongle_is_glove_connected(radio) ELSE FALSE

Pump_check(r, radio) ==
    /\ tr_pc[r] = "check"
    /\ tr_radio' = radio
    /\ sb_connected' = CheckedFlag(radio)
    /\ IF sb_connected # CheckedFlag(radio)
          THEN /\ tr_pc' = [tr_pc EXCEPT ![r] = "notify"]
               /\ tr_pub' = Notify(r, "read", "reader")
          ELSE /\ tr_pc' = [tr_pc EXCEPT ![r] = "read"]
               /\ UNCHANGED tr_pub
    /\ UNCHANGED <<tr_connected, tr_active, tr_command_queue, tr_sender_thread,
                   tr_reader_thread, tr_elapsed, tr_subscribers, orchDongle, tr_command, tr_sleep,
                   tr_naccepted, tr_sent, tr_since_write, tr_closed, tr_ops>>

Pump_read_nothing(r) ==
    /\ tr_pc[r] = "read"
    /\ tr_pc' = [tr_pc EXCEPT ![r] = "top"]
    /\ UNCHANGED <<orchState, orchDongle, tr_command, tr_sleep, tr_pub, orchHistory>>

Pump_read_update(r) ==
    /\ tr_pc[r] = "read"
    /\ tr_pc' = [tr_pc EXCEPT ![r] = "notify"]
    /\ tr_pub' = Notify(r, "top", "reader")
    /\ UNCHANGED <<orchState, orchDongle, tr_command, tr_sleep, orchHistory>>

\* ---- connect
Transport_connect ==
    /\ tr_pc[Caller] = "idle"
    /\ tr_ops < MaxCalls
    /\ tr_ops' = tr_ops + 1
    /\ tr_closed' = FALSE
    /\ tr_pc' = [tr_pc EXCEPT ![Caller] = IF tr_connected THEN "idle" ELSE "dongle_connect"]
    /\ UNCHANGED <<orchState, orchDongle, tr_command, tr_sleep, tr_pub,
                   tr_naccepted, tr_sent, tr_since_write, tr_radio>>

Transport_connect_dongle_ok ==
    /\ tr_pc[Caller] = "dongle_connect"
    /\ FreeSenders # {} /\ FreePumps # {}
    /\ dg_connected' = TRUE
    /\ dg_autoreconnect' = TRUE
    /\ tr_pc' = [tr_pc EXCEPT ![Caller] = "start"]
    /\ UNCHANGED <<orchState, tr_command, tr_sleep, tr_pub, orchHistory>>

Transport_connect_dongle_fail ==
    /\ tr_pc[Caller] = "dongle_connect"
    /\ ~dg_connected
    /\ dg_autoreconnect' = TRUE
    /\ tr_pc' = [tr_pc EXCEPT ![Caller] = "idle"]
    /\ UNCHANGED <<orchState, dg_connected, tr_command, tr_sleep, tr_pub, orchHistory>>

Transport_connect_start ==
    /\ tr_pc[Caller] = "start"
    /\ FreeSenders # {} /\ FreePumps # {}
    /\ tr_active' = TRUE
    /\ tr_connected' = TRUE
    /\ tr_reader_thread' = NewPump
    /\ tr_sender_thread' = NewSender
    /\ tr_pc' = [tr_pc EXCEPT ![NewPump] = "top", ![NewSender] = "get",
                              ![Caller] = "set_connected"]
    /\ UNCHANGED <<tr_command_queue, tr_elapsed, sb_connected, tr_subscribers, orchDongle,
                   tr_command, tr_sleep, tr_pub, orchHistory>>

Transport_connect_publish ==
    /\ tr_pc[Caller] = "set_connected"
    /\ sb_connected' = TRUE
    /\ tr_pc' = [tr_pc EXCEPT ![Caller] = "notify"]
    /\ tr_pub' = Notify(Caller, "idle", "connect")
    /\ UNCHANGED <<tr_connected, tr_active, tr_command_queue, tr_sender_thread,
                   tr_reader_thread, tr_elapsed, tr_subscribers, orchDongle, tr_command, tr_sleep, orchHistory>>

\* ---- disconnect
Transport_disconnect ==
    /\ tr_pc[Caller] = "idle"
    /\ tr_ops < MaxCalls
    /\ tr_ops' = tr_ops + 1
    /\ tr_active' = FALSE
    /\ tr_connected' = FALSE
    /\ tr_command_queue' = Append(tr_command_queue, 0)
    /\ tr_pc' = [tr_pc EXCEPT ![Caller] = "join_sender"]
    /\ UNCHANGED <<tr_sender_thread, tr_reader_thread, tr_elapsed, sb_connected,
                   tr_subscribers, orchDongle,
                   tr_command, tr_sleep, tr_pub,
                   tr_naccepted, tr_sent, tr_since_write, tr_closed, tr_radio>>

\* join(timeout=1.0) returns when the thread has ended, or after the timeout
\* while the thread is still at work: a sender loop with commands to write
\* before the sentinel, a reader loop inside a subscriber's callback.
SenderAtWork(s) ==
    \/ tr_command[s] # 0
    \/ tr_command_queue # <<>> /\ Head(tr_command_queue) # 0

PumpAtWork(r) == tr_pc[r] = "cb"

Transport_disconnect_join_sender ==
    /\ tr_pc[Caller] = "join_sender"
    /\ OrchAlive(tr_sender_thread) => SenderAtWork(tr_sender_thread)
    /\ tr_pc' = [tr_pc EXCEPT ![Caller] = "join_reader"]
    /\ UNCHANGED <<orchState, orchDongle, tr_command, tr_sleep, tr_pub, orchHistory>>

Transport_disconnect_join_reader ==
    /\ tr_pc[Caller] = "join_reader"
    /\ OrchAlive(tr_reader_thread) => PumpAtWork(tr_reader_thread)
    /\ tr_pc' = [tr_pc EXCEPT ![Caller] = "dongle_disconnect"]
    /\ UNCHANGED <<orchState, orchDongle, tr_command, tr_sleep, tr_pub, orchHistory>>

Transport_disconnect_dongle ==
    /\ tr_pc[Caller] = "dongle_disconnect"
    /\ dg_connected' = FALSE
    /\ dg_autoreconnect' = FALSE
    /\ tr_pc' = [tr_pc EXCEPT ![Caller] = "set_disconnected"]
    /\ UNCHANGED <<orchState, tr_command, tr_sleep, tr_pub, orchHistory>>

Transport_disconnect_publish ==
    /\ tr_pc[Caller] = "set_disconnected"
    /\ sb_connected' = FALSE
    /\ tr_pc' = [tr_pc EXCEPT ![Caller] = "notify"]
    /\ tr_pub' = Notify(Caller, "idle", "disconnect")
    /\ UNCHANGED <<tr_connected, tr_active, tr_command_queue, tr_sender_thread,
                   tr_reader_thread, tr_elapsed, tr_subscribers, orchDongle, tr_command, tr_sleep, orchHistory>>

OrchFrame == UNCHANGED <<ringVars, scanVars, linkVars, busVars, cqVars, sbVars, prVars, dgmVars, csVars, ordVars>>

\* ---- the order in which snapshots are taken and delivered.  A thread
\* inside _notify_subscribers has taken its snapshot and is calling the
\* subscribers one by one; another thread that enters _notify_subscribers
\* meanwhile takes a later snapshot.
OrderInit ==
    /\ ord_newer = [t \in Notifiers |-> {}]
    /\ ord_stale = [t \in Notifiers |-> {}]

OrderIdle == OrderInit

Publishing(t) == tr_pc[t] = "cb"

\* "state = self._state_builder.snapshot()" and the call of the first
\* subscriber, by thread t
Order_notify_begin(t) ==
    /\ Notify_begin(t)
    /\ IF tr_subscribers = <<>>
          THEN UNCHANGED ordVars
          ELSE /\ ord_newer' = [x \in Notifiers |->
                                   IF x = t THEN {}
                                   ELSE IF Publishing(x) THEN ord_newer[x] \cup {t}
                                   ELSE ord_newer[x]]
               /\ ord_stale' = [x \in Notifiers |->
                                   IF x = t THEN {}
                                   ELSE IF Publishing(x) THEN ord_stale[x] \cup {1}
                                   ELSE ord_stale[x]]

\* the call of the next subscriber, or the return of _notify_subscribers
Order_notify_next(t) ==
    /\ Notify_next(t)
    /\ IF tr_pub[t].idx < Len(tr_subscribers)
          THEN /\ ord_stale' = [x \in Notifiers |->
                                   IF x # t /\ Publishing(x) /\ t \in ord_newer[x]
                                      THEN ord_stale[x] \cup {tr_pub[t].idx + 1}
                                      ELSE ord_stale[x]]
               /\ UNCHANGED ord_newer
          ELSE /\ ord_newer' = [x \in Notifiers |-> IF x = t THEN {} ELSE ord_newer[x] \ {t}]
               /\ ord_stale' = [ord_stale EXCEPT ![t] = {}]

\* what a step of the transport leaves alone when the order is recorded
OrderFrame ==
    UNCHANGED <<ringVars, scanVars, linkVars, busVars, cqVars, sbVars, prVars, dgmVars, csVars>>

\* the transport of NextOrch, with the order of snapshots recorded
NextOrder ==
    \/ Dongle_lost /\ OrchFrame
    \/ Dongle_back /\ OrchFrame
    \/ \E s \in Senders : Sender_get(s) /\ OrchFrame
    \/ \E t \in Notifiers : Order_notify_begin(t) /\ OrderFrame
    \/ \E t \in Notifiers : Order_notify_next(t) /\ OrderFrame
    \/ \E r \in Pumps : Pump_top(r) /\ OrchFrame
    \/ \E r \in Pumps, radio \in BOOLEAN : Pump_check(r, radio) /\ OrchFrame
    \/ \E r \in Pumps : Pump_read_nothing(r) /\ OrchFrame
    \/ \E r \in Pumps : Pump_read_update(r) /\ OrchFrame
    \/ Transport_connect /\ OrchFrame
    \/ Transport_connect_dongle_ok /\ OrchFrame
    \/ Transport_connect_dongle_fail /\ OrchFrame
    \/ Transport_connect_start /\ OrchFrame
    \/ Transport_connect_publish /\ OrchFrame
    \/ Transport_disconnect /\ OrchFrame
    \/ Transport_disconnect_join_sender /\ OrchFrame
    \/ Transport_disconnect_join_reader /\ OrchFrame
    \/ Transport_disconnect_dongle /\ OrchFrame
    \/ Transport_disconnect_publish /\ OrchFrame

\* the transport with commands arriving, and no state subscriber
NextSend ==
    \/ Tick /\ OrchFrame
    \/ SendCommand_check /\ OrchFrame
    \/ SendCommand_put /\ OrchFrame
    \/ \E s \in Senders : Sender_get(s) /\ OrchFrame
    \/ \E s \in Senders : Sender_wake(s) /\ OrchFrame
    \/ \E s \in Senders : Sender_write(s) /\ OrchFrame
    \/ \E s \in Senders : Sender_written(s) /\ OrchFrame
    \/ \E s \in Senders : Sender_stamp(s) /\ OrchFrame
    \/ \E t \in Notifiers : Notify_begin(t) /\ OrchFrame
    \/ \E r \in Pumps : Pump_top(r) /\ OrchFrame
    \/ \E r \in Pumps, radio \in BOOLEAN : Pump_check(r, radio) /\ OrchFrame
    \/ \E r \in Pumps : Pump_read_nothing(r) /\ OrchFrame
    \/ \E r \in Pumps : Pump_read_update(r) /\ OrchFrame
    \/ Transport_connect /\ OrchFrame
    \/ Transport_connect_dongle_ok /\ OrchFrame
    \/ Transport_connect_dongle_fail /\ OrchFrame
    \/ Transport_connect_start /\ OrchFrame
    \/ Transport_connect_publish /\ OrchFrame
    \/ Transport_disconnect /\ OrchFrame
    \/ Transport_disconnect_join_sender /\ OrchFrame
    \/ Transport_disconnect_join_reader /\ OrchFrame
    \/ Transport_disconnect_dongle /\ OrchFrame
    \/ Transport_disconnect_publish /\ OrchFrame

\* the transport with two state subscribers and a Dongle whose link drops
\* and comes back, and no command arriving
NextOrch ==
    \/ Dongle_lost /\ OrchFrame
    \/ Dongle_back /\ OrchFrame
    \/ \E s \in Senders : Sender_get(s) /\ OrchFrame
    \/ \E t \in Notifiers : Notify_begin(t) /\ OrchFrame
    \/ \E t \in Notifiers : Notify_next(t) /\ OrchFrame
    \/ \E r \in Pumps : Pump_top(r) /\ OrchFrame
    \/ \E r \in Pumps, radio \in BOOLEAN : Pump_check(r, radio) /\ OrchFrame
    \/ \E r \in Pumps : Pump_read_nothing(r) /\ OrchFrame
    \/ \E r \in Pumps : Pump_read_update(r) /\ OrchFrame
    \/ Transport_connect /\ OrchFrame
    \/ Transport_connect_dongle_ok /\ OrchFrame
    \/ Transport_connect_dongle_fail /\ OrchFrame
    \/ Transport_connect_start /\ OrchFrame
    \/ Transport_connect_publish /\ OrchFrame
    \/ Transport_disconnect /\ OrchFrame
    \/ Transport_disconnect_join_sender /\ OrchFrame
    \/ Transport_disconnect_join_reader /\ OrchFrame
    \/ Transport_disconnect_dongle /\ OrchFrame
    \/ Transport_disconnect_publish /\ OrchFrame

(***************************************************************************)
(* StatusMonitor's chunk queue (sdk/dongle/status_monitor.py): on_data     *)
(* called by the Link reader, the monitor thread, start() and stop().      *)
(* Chunks are numbered in arrival order; 0 is the empty chunk b'' that     *)
(* stop() puts to wake the thread.                                         *)
(***************************************************************************)
QueueDepth == 2       \* queue.Queue(maxsize=...), the depth of the model's queue
MaxFeeds == 3         \* how many chunks the Link reader delivers
MaxMonitorOps == 2    \* how many start() and stop() calls the MonitorOwner makes
PollInterval == 2     \* DEFAULT_POLL_INTERVAL, in ticks
MaxRequests == 2      \* up to where the written status requests are counted

MonitorOwner == <<"O", 0>>                    \* the thread calling start() and stop()
Feeder == <<"F", 0>>                         \* the Link reader thread, calling on_data
Monitors == {<<"M", 1>>, <<"M", 2>>}         \* the threads running _monitor_loop
QueueThreads == {MonitorOwner, Feeder} \cup Monitors

QueueAlive(t) == t # NoThread /\ cq_pc[t] # "none"
FreeMonitors == {m \in Monitors : cq_pc[m] = "none"}
NewMonitor == CHOOSE m \in FreeMonitors : \A q \in FreeMonitors : m[2] <= q[2]
QueueFull == Len(cq_queue) >= QueueDepth

QueueInit ==
    /\ cq_queue = <<>>
    /\ cq_running = FALSE
    /\ cq_thread = NoThread
    /\ cq_pc = [t \in QueueThreads |-> IF t \in Monitors THEN "none" ELSE "idle"]
    /\ cq_nchunks = 0
    /\ cq_nops = 0
    /\ cq_since_poll = [m \in Monitors |-> PollInterval]
    /\ cq_link = FALSE
    /\ cq_wrote = [m \in Monitors |-> FALSE]
    /\ cq_nreq = 0

QueueIdle == QueueInit

\* ---- the environment: time, and the Link beneath the monitor
QueueTick ==
    /\ \E m \in Monitors : QueueAlive(m) /\ cq_since_poll[m] < PollInterval
    /\ cq_since_poll' = [m \in Monitors |->
                            IF QueueAlive(m) THEN UpTo(cq_since_poll[m] + 1, PollInterval)
                            ELSE cq_since_poll[m]]
    /\ UNCHANGED <<cq_queue, cq_running, cq_thread, cq_pc, cq_nchunks, cq_nops,
                   cq_link, cq_wrote, cq_nreq>>

Connection_lost ==
    /\ cq_link
    /\ cq_link' = FALSE
    /\ UNCHANGED <<cq_queue, cq_running, cq_thread, cq_pc, cq_nchunks, cq_nops,
                   cq_since_poll, cq_wrote, cq_nreq>>

Connection_back ==
    /\ ~cq_link
    /\ cq_link' = TRUE
    /\ UNCHANGED <<cq_queue, cq_running, cq_thread, cq_pc, cq_nchunks, cq_nops,
                   cq_since_poll, cq_wrote, cq_nreq>>

\* ---- on_data
\* what get_nowait() leaves in a queue that is not empty: it takes the oldest item
GetNowaitNewest(queue) == SubSeq(queue, 1, Len(queue) - 1)
GetNowait(queue) == Tail(queue)

OnData_put ==
    /\ cq_pc[Feeder] = "idle"
    /\ cq_nchunks < MaxFeeds
    /\ cq_nchunks' = cq_nchunks + 1
    /\ IF QueueFull
          THEN /\ cq_pc' = [cq_pc EXCEPT ![Feeder] = "drop"]
               /\ UNCHANGED cq_queue
          ELSE /\ cq_queue' = Append(cq_queue, cq_nchunks + 1)
               /\ UNCHANGED cq_pc
    /\ UNCHANGED <<cq_running, cq_thread, cq_nops, cqPoll>>

OnData_drop_oldest ==
    /\ cq_pc[Feeder] = "drop"
    /\ IF cq_queue = <<>>
          THEN /\ cq_pc' = [cq_pc EXCEPT ![Feeder] = "idle"]
               /\ UNCHANGED cq_queue
          ELSE /\ cq_queue' = GetNowait(cq_queue)
               /\ cq_pc' = [cq_pc EXCEPT ![Feeder] = "reput"]
    /\ UNCHANGED <<cq_running, cq_thread, cq_nchunks, cq_nops, cqPoll>>

OnData_reput ==
    /\ cq_pc[Feeder] = "reput"
    /\ cq_queue' = IF QueueFull THEN cq_queue ELSE Append(cq_queue, cq_nchunks)
    /\ cq_pc' = [cq_pc EXCEPT ![Feeder] = "idle"]
    /\ UNCHANGED <<cq_running, cq_thread, cq_nchunks, cq_nops, cqPoll>>

\* ---- _monitor_loop
Monitor_top(m) ==
    /\ cq_pc[m] = "top"
    /\ cq_pc' = [cq_pc EXCEPT ![m] = IF cq_running THEN "get" ELSE "none"]
    /\ cq_wrote' = [cq_wrote EXCEPT ![m] = FALSE]
    /\ cq_since_poll' = [cq_since_poll EXCEPT ![m] = IF cq_running THEN @ ELSE PollInterval]
    /\ UNCHANGED <<cq_queue, cq_running, cq_thread, cq_nchunks, cq_nops, cq_link, cq_nreq>>

Monitor_get(m) ==
    /\ cq_pc[m] = "get"
    /\ cq_queue # <<>>
    /\ cq_queue' = Tail(cq_queue)
    /\ cq_pc' = [cq_pc EXCEPT ![m] = IF Head(cq_queue) # 0 THEN "process" ELSE "poll"]
    /\ UNCHANGED <<cq_running, cq_thread, cq_nchunks, cq_nops, cqPoll>>

Monitor_get_timeout(m) ==
    /\ cq_pc[m] = "get"
    /\ cq_queue = <<>>
    /\ cq_pc' = [cq_pc EXCEPT ![m] = "poll"]
    /\ UNCHANGED <<cq_queue, cq_running, cq_thread, cq_nchunks, cq_nops, cqPoll>>

Monitor_process(m) ==
    /\ cq_pc[m] = "process"
    /\ cq_pc' = [cq_pc EXCEPT ![m] = "poll"]
    /\ UNCHANGED <<cq_queue, cq_running, cq_thread, cq_nchunks, cq_nops, cqPoll>>

\* "if now - last_poll_time >= self._poll_interval"
PollDueWithData(m) == cq_since_poll[m] >= PollInterval /\ cq_queue # <<>>
PollDue(m) == cq_since_poll[m] >= PollInterval

\* "if self._connection.is_connected(): self.request_status()" and
\* "last_poll_time = now"
Monitor_poll(m) ==
    /\ cq_pc[m] = "poll"
    /\ cq_pc' = [cq_pc EXCEPT ![m] = "top"]
    /\ IF PollDue(m)
          THEN /\ cq_wrote' = [cq_wrote EXCEPT ![m] = cq_link]
               /\ cq_nreq' = IF cq_link THEN UpTo(cq_nreq + 1, MaxRequests) ELSE cq_nreq
               /\ cq_since_poll' = [cq_since_poll EXCEPT ![m] = 0]
          ELSE UNCHANGED <<cq_wrote, cq_nreq, cq_since_poll>>
    /\ UNCHANGED <<cq_queue, cq_running, cq_thread, cq_nchunks, cq_nops, cq_link>>

\* ---- start
Monitor_start ==
    /\ cq_pc[MonitorOwner] = "idle"
    /\ cq_nops < MaxMonitorOps
    /\ cq_nops' = cq_nops + 1
    /\ IF cq_running
          THEN UNCHANGED <<cq_running, cq_thread, cq_pc>>
          ELSE /\ FreeMonitors # {}
               /\ cq_running' = TRUE
               /\ cq_thread' = NewMonitor
               /\ cq_pc' = [cq_pc EXCEPT ![NewMonitor] = "top"]
    /\ UNCHANGED <<cq_queue, cq_nchunks, cqPoll>>

\* ---- stop
Monitor_stop ==
    /\ cq_pc[MonitorOwner] = "idle"
    /\ cq_nops < MaxMonitorOps
    /\ cq_nops' = cq_nops + 1
    /\ IF ~cq_running
          THEN UNCHANGED <<cq_running, cq_thread, cq_pc>>
          ELSE /\ cq_running' = FALSE
               /\ IF QueueAlive(cq_thread)
                     THEN /\ cq_pc' = [cq_pc EXCEPT ![MonitorOwner] = "stop_put"]
                          /\ UNCHANGED cq_thread
                     ELSE /\ cq_thread' = NoThread
                          /\ UNCHANGED cq_pc
    /\ UNCHANGED <<cq_queue, cq_nchunks, cqPoll>>

\* self._data_queue.put(b''): a put without timeout, it waits for a free slot
Stop_put ==
    /\ cq_pc[MonitorOwner] = "stop_put"
    /\ ~QueueFull
    /\ cq_queue' = Append(cq_queue, 0)
    /\ cq_pc' = [cq_pc EXCEPT ![MonitorOwner] = "stop_join"]
    /\ UNCHANGED <<cq_running, cq_thread, cq_nchunks, cq_nops, cqPoll>>

\* join(timeout=1.0) returns when the thread has ended, or after the timeout
\* while the thread is processing a chunk or polling
MonitorAtWork(m) == cq_pc[m] \in {"process", "poll"}

Stop_join ==
    /\ cq_pc[MonitorOwner] = "stop_join"
    /\ QueueAlive(cq_thread) => MonitorAtWork(cq_thread)
    /\ cq_thread' = NoThread
    /\ cq_pc' = [cq_pc EXCEPT ![MonitorOwner] = "idle"]
    /\ UNCHANGED <<cq_queue, cq_running, cq_nchunks, cq_nops, cqPoll>>

QueueFrame == UNCHANGED <<ringVars, scanVars, linkVars, busVars, orchVars, sbVars, prVars, dgmVars, csVars, ordVars>>

NextQueue ==
    \/ QueueTick /\ QueueFrame
    \/ Connection_lost /\ QueueFrame
    \/ Connection_back /\ QueueFrame
    \/ OnData_put /\ QueueFrame
    \/ OnData_drop_oldest /\ QueueFrame
    \/ OnData_reput /\ QueueFrame
    \/ \E m \in Monitors : Monitor_top(m) /\ QueueFrame
    \/ \E m \in Monitors : Monitor_get(m) /\ QueueFrame
    \/ \E m \in Monitors : Monitor_get_timeout(m) /\ QueueFrame
    \/ \E m \in Monitors : Monitor_process(m) /\ QueueFrame
    \/ \E m \in Monitors : Monitor_poll(m) /\ QueueFrame
    \/ Monitor_start /\ QueueFrame
    \/ Monitor_stop /\ QueueFrame
    \/ Stop_put /\ QueueFrame
    \/ Stop_join /\ QueueFrame

(***************************************************************************)
(* StateBuilder (sdk/protocol/state_builder.py): the accumulator behind    *)
(* the transport.  Floats are exact rationals <<n, d>> with d > 0, and NaN *)
(* a value of its own that compares false with everything, as Python's     *)
(* float does.  Two of the five fingers are modelled: "thumb", which is    *)
(* inverted, and "index", which is not; the loops treat every finger alike.*)
(***************************************************************************)
RAW_MAX == 4095
MaxBuilderOps == 3    \* how many calls are made on the accumulator

Fingers == {"thumb", "index"}

NaN == <<0, 0>>

Num(i) == <<i, 1>>

\* a < b on floats: false when either is NaN
Less(a, b) == a # NaN /\ b # NaN /\ a[1] * b[2] < b[1] * a[2]

\* Python's min(a, b) and max(a, b): the first argument unless the second
\* is smaller (larger)
PyMin(a, b) == IF Less(b, a) THEN b ELSE a

PyMax(a, b) == IF Less(a, b) THEN b ELSE a

\* "max(0.0, min(1.0, value))" and "max(0.0, min(RAW_MAX, raw_value))"
ClampNoCeiling(lo, hi, value) == PyMax(lo, value)
Clamp(lo, hi, value) == PyMax(lo, PyMin(hi, value))

\* int(raw_value) of a float that is not NaN: truncation towards zero
PyInt(a) == IF a[1] >= 0 THEN a[1] \div a[2] ELSE -((-a[1]) \div a[2])

FingerInit(name) ==
    [position |-> Num(0), setpoint |-> Num(0), calibrated |-> FALSE,
     raw_min |-> RAW_MAX, raw_max |-> 0, invert |-> (name = "thumb")]

BuilderInit ==
    /\ sb_fingers = [name \in Fingers |-> FingerInit(name)]
    /\ sb_imu = Num(0)
    /\ sb_calibrating = FALSE
    /\ sb_snap = <<>>
    /\ sb_recal = [name \in Fingers |-> FALSE]
    /\ sb_nops = 0
    /\ sb_last = <<"__init__">>

BuilderIdle == BuilderInit

\* every call on the accumulator is counted
BuilderCall(call) ==
    /\ sb_nops < MaxBuilderOps
    /\ sb_nops' = sb_nops + 1
    /\ sb_last' = call

\* ---- apply(update), update_type FINGER_POSITIONS
Apply_finger_positions(values) ==
    /\ BuilderCall(<<"apply", "finger_positions", values>>)
    /\ sb_fingers' = [name \in Fingers |->
                         [sb_fingers[name] EXCEPT !.position = Clamp(Num(0), Num(1), values[name])]]
    /\ UNCHANGED <<sb_imu, sb_calibrating, sb_snap, sb_recal>>

\* ---- apply(update), update_type RAW_POSITIONS: one finger
WidenedMin(data, raw) ==
    IF sb_calibrating /\ Less(raw, Num(data.raw_min)) THEN PyInt(raw) ELSE data.raw_min

WidenedMax(data, raw) ==
    IF sb_calibrating /\ Less(Num(data.raw_max), raw) THEN PyInt(raw) ELSE data.raw_max

\* (raw_value - raw_min) / (raw_max - raw_min), for raw_max > raw_min
Normalized(raw, lo, hi) == <<raw[1] - lo * raw[2], raw[2] * (hi - lo)>>

\* 1.0 - normalized
Inverted(x) == <<x[2] - x[1], x[2]>>

RawPosition(data, raw, lo, hi) ==
    IF data.calibrated /\ hi > lo
        THEN IF data.invert
                THEN Inverted(Clamp(Num(0), Num(1), Normalized(raw, lo, hi)))
                ELSE Clamp(Num(0), Num(1), Normalized(raw, lo, hi))
        ELSE <<raw[1], raw[2] * RAW_MAX>>

ApplyRaw(data, value) ==
    LET raw == Clamp(Num(0), Num(RAW_MAX), value)
        lo == WidenedMin(data, raw)
        hi == WidenedMax(data, raw)
    IN  [data EXCEPT !.raw_min = lo, !.raw_max = hi,
                     !.position = RawPosition(data, raw, lo, hi)]

Apply_raw_positions(values) ==
    /\ BuilderCall(<<"apply", "raw_positions", values>>)
    /\ sb_fingers' = [name \in Fingers |-> ApplyRaw(sb_fingers[name], values[name])]
    /\ UNCHANGED <<sb_imu, sb_calibrating, sb_snap, sb_recal>>

\* ---- apply(update), update_type IMU_HEADING
Apply_imu_heading(value) ==
    /\ BuilderCall(<<"apply", "imu_heading", value>>)
    /\ sb_imu' = value
    /\ UNCHANGED <<sb_fingers, sb_calibrating, sb_snap, sb_recal>>

\* ---- set_calibrating
Set_calibrating(calibrating) ==
    /\ BuilderCall(<<"set_calibrating", calibrating>>)
    /\ sb_calibrating' = calibrating
    /\ sb_fingers' = IF calibrating
                        THEN [name \in Fingers |->
                                 [sb_fingers[name] EXCEPT !.raw_min = RAW_MAX, !.raw_max = 0]]
                        ELSE sb_fingers
    /\ sb_recal' = IF calibrating THEN [name \in Fingers |-> TRUE] ELSE sb_recal
    /\ UNCHANGED <<sb_imu, sb_snap>>

\* ---- set_finger_setpoint
Set_finger_setpoint(finger_name, setpoint) ==
    /\ BuilderCall(<<"set_finger_setpoint", finger_name, setpoint>>)
    /\ sb_fingers' = [sb_fingers EXCEPT ![finger_name].setpoint = Clamp(Num(0), Num(1), setpoint)]
    /\ UNCHANGED <<sb_imu, sb_calibrating, sb_snap, sb_recal>>

\* ---- apply_calibration
\* "finger_data["calibrated"] = (raw_max > raw_min)"
IsCalibratedOrEqual(raw_min, raw_max) == raw_max >= raw_min
IsCalibrated(raw_min, raw_max) == raw_max > raw_min

Apply_calibration(finger_name, raw_min, raw_max) ==
    /\ BuilderCall(<<"apply_calibration", finger_name, raw_min, raw_max>>)
    /\ sb_fingers' = [sb_fingers EXCEPT ![finger_name].raw_min = raw_min,
                                        ![finger_name].raw_max = raw_max,
                                        ![finger_name].calibrated = IsCalibrated(raw_min, raw_max)]
    /\ sb_recal' = [sb_recal EXCEPT ![finger_name] = FALSE]
    /\ UNCHANGED <<sb_imu, sb_calibrating, sb_snap>>

\* ---- snapshot: FingerState and IMUState objects are built from the
\* values of the accumulator's fields; a snapshot that shared the
\* accumulator's own dictionaries would show what they hold now
SnapshotSharing(fingers, imu, calibrating) ==
    [shared |-> TRUE, fingers |-> fingers, imu |-> imu, calibrating |-> calibrating]
Snapshot(fingers, imu, calibrating) ==
    [shared |-> FALSE, fingers |-> fingers, imu |-> imu, calibrating |-> calibrating]

Builder_snapshot ==
    /\ BuilderCall(<<"snapshot">>)
    /\ sb_snap' = <<Snapshot(sb_fingers, sb_imu, sb_calibrating)>>
    /\ UNCHANGED <<sb_fingers, sb_imu, sb_calibrating, sb_recal>>

\* what a reader of a snapshot sees
Observed(snap) ==
    IF snap.shared
        THEN [fingers |-> [name \in Fingers |->
                              [f \in {"position", "setpoint", "calibrated", "raw_min", "raw_max"} |->
                                  sb_fingers[name][f]]],
              imu |-> sb_imu, calibrating |-> snap.calibrating]
        ELSE [fingers |-> [name \in Fingers |->
                              [f \in {"position", "setpoint", "calibrated", "raw_min", "raw_max"} |->
                                  snap.fingers[name][f]]],
              imu |-> snap.imu, calibrating |-> snap.calibrating]

\* the arguments the calls are made with
PositionInputs == {<<-1, 2>>, <<3, 2>>, NaN}
RawInputs == {Num(-5), Num(100), Num(5000)}
SetpointInputs == {<<-1, 2>>, <<1, 4>>, <<3, 2>>, NaN}
CalibrationInputs == {100, 3000}
ImuInputs == {Num(400), NaN}

BuilderFrame == UNCHANGED <<ringVars, scanVars, linkVars, busVars, orchVars, cqVars, prVars, dgmVars, csVars, ordVars>>

NextBuilder ==
    \/ \E values \in [Fingers -> PositionInputs] : Apply_finger_positions(values) /\ BuilderFrame
    \/ \E values \in [Fingers -> RawInputs] : Apply_raw_positions(values) /\ BuilderFrame
    \/ \E value \in ImuInputs : Apply_imu_heading(value) /\ BuilderFrame
    \/ \E calibrating \in BOOLEAN : Set_calibrating(calibrating) /\ BuilderFrame
    \/ \E name \in Fingers, setpoint \in SetpointInputs : Set_finger_setpoint(name, setpoint) /\ BuilderFrame
    \/ \E name \in Fingers, lo, hi \in CalibrationInputs : Apply_calibration(name, lo, hi) /\ BuilderFrame
    \/ Builder_snapshot /\ BuilderFrame

(***************************************************************************)
(* snapshot() on one thread while apply() runs on another.  The            *)
(* accumulator has no lock: the reader loop of the transport calls         *)
(* apply(), whose loop writes one finger after the other in the order of   *)
(* FINGER_NAMES, and a caller's thread (subscribe_state, connect,          *)
(* disconnect) calls snapshot(), whose comprehension reads one finger      *)
(* after the other in the same order.  A step writes or reads one finger;  *)
(* the interpreter may switch threads between any two steps.               *)
(***************************************************************************)
FINGER_NAMES == <<"thumb", "index">>

\* one pass of the loop of _apply_finger_positions or _apply_raw_positions
Written(data, kind, value) ==
    IF kind = "finger_positions"
        THEN [data EXCEPT !.position = Clamp(Num(0), Num(1), value)]
        ELSE ApplyRaw(data, value)

TearInit ==
    /\ cs_writes = <<>>
    /\ cs_reads = <<>>
    /\ cs_partial = [name \in Fingers |-> FingerInit(name)]
    /\ cs_whole = {[name \in Fingers |-> FingerInit(name)]}
    /\ cs_allowed = {}

TearIdle == TearInit

\* apply(update) is called by the reader loop
Tear_apply_begin(kind, values) ==
    /\ cs_writes = <<>>
    /\ BuilderCall(<<"apply", kind, values>>)
    /\ cs_writes' = [i \in 1..Len(FINGER_NAMES) |-> <<FINGER_NAMES[i], values[FINGER_NAMES[i]]>>]
    /\ LET after == [name \in Fingers |-> Written(sb_fingers[name], kind, values[name])]
       IN /\ cs_whole' = {sb_fingers, after}
          /\ cs_allowed' = IF cs_reads # <<>> THEN cs_allowed \cup {after} ELSE cs_allowed
    /\ UNCHANGED <<sb_fingers, sb_imu, sb_calibrating, sb_snap, sb_recal, cs_reads, cs_partial>>

\* "for finger_name, value in zip(FINGER_NAMES, values)": one pass
Tear_apply_write ==
    /\ cs_writes # <<>>
    /\ LET name == Head(cs_writes)[1]
           value == Head(cs_writes)[2]
       IN sb_fingers' = [sb_fingers EXCEPT ![name] = Written(@, sb_last[2], value)]
    /\ cs_writes' = Tail(cs_writes)
    /\ cs_whole' = IF Tail(cs_writes) = <<>> THEN {sb_fingers'} ELSE cs_whole
    /\ UNCHANGED <<sb_imu, sb_calibrating, sb_snap, sb_recal, sb_nops, sb_last,
                   cs_reads, cs_partial, cs_allowed>>

\* snapshot() is called by a caller's thread
Tear_snapshot_begin ==
    /\ cs_reads = <<>>
    /\ sb_nops < MaxBuilderOps
    /\ sb_nops' = sb_nops + 1
    /\ cs_reads' = FINGER_NAMES
    /\ cs_allowed' = cs_whole
    /\ UNCHANGED <<sb_fingers, sb_imu, sb_calibrating, sb_snap, sb_recal, sb_last,
                   cs_writes, cs_partial, cs_whole>>

\* "name: FingerState(...) for name, data in self._fingers.items()": one
\* finger; after the last one the GloveState is built and returned
Tear_snapshot_read ==
    /\ cs_reads # <<>>
    /\ cs_partial' = [cs_partial EXCEPT ![Head(cs_reads)] = sb_fingers[Head(cs_reads)]]
    /\ cs_reads' = Tail(cs_reads)
    /\ sb_snap' = IF Tail(cs_reads) = <<>>
                     THEN <<Snapshot(cs_partial', sb_imu, sb_calibrating)>>
                     ELSE sb_snap
    /\ UNCHANGED <<sb_fingers, sb_imu, sb_calibrating, sb_recal, sb_nops, sb_last,
                   cs_writes, cs_whole, cs_allowed>>

TearFrame == UNCHANGED <<ringVars, scanVars, linkVars, busVars, orchVars, cqVars, prVars, dgmVars, ordVars>>

NextTear ==
    \/ \E values \in [Fingers -> PositionInputs] :
           Tear_apply_begin("finger_positions", values) /\ TearFrame
    \/ \E values \in [Fingers -> RawInputs] :
           Tear_apply_begin("raw_positions", values) /\ TearFrame
    \/ Tear_apply_write /\ TearFrame
    \/ Tear_snapshot_begin /\ TearFrame
    \/ Tear_snapshot_read /\ TearFrame

(***************************************************************************)
(* ProtocolParser (sdk/protocol/parser.py).  A line is a sequence of       *)
(* symbols: the keyword parts "STRIMU", "STREAM" and "_RAW" (so that       *)
(* "STREAM_RAW" is "STREAM" followed by "_RAW"), the digit "1", the blank  *)
(* " ", the separators "," and ";", the brackets "<" and ">", and "x" for  *)
(* any other character.  float() accepts a token made of digits only.      *)
(***************************************************************************)
MaxFields == 6        \* how many separated fields an input line has

ImuArity == 3
PositionArity == 5

NoUpdate == [kind |-> "none", values |-> <<>>]

StartsWith(line, prefix) ==
    /\ Len(line) >= Len(prefix)
    /\ SubSeq(line, 1, Len(prefix)) = prefix

RECURSIVE LStripChar(_, _)
LStripChar(line, c) ==
    IF line # <<>> /\ Head(line) = c THEN LStripChar(Tail(line), c) ELSE line

RECURSIVE RStripChar(_, _)
RStripChar(line, c) ==
    IF line # <<>> /\ line[Len(line)] = c THEN RStripChar(SubSeq(line, 1, Len(line) - 1), c) ELSE line

\* str.strip() of blanks
StripBlanks(line) == RStripChar(LStripChar(line, " "), " ")

\* payload.replace(";", ",")
ReplaceSemicolons(payload) == [i \in 1..Len(payload) |-> IF payload[i] = ";" THEN "," ELSE payload[i]]

\* payload.split(","): the fields between the commas, empty ones included
RECURSIVE Split(_, _)
Split(payload, field) ==
    IF payload = <<>> THEN <<field>>
    ELSE IF Head(payload) = "," THEN <<field>> \o Split(Tail(payload), <<>>)
    ELSE Split(Tail(payload), Append(field, Head(payload)))

\* float(token) returns a value: it raises ValueError otherwise
IsFloat(token) == token # <<>> /\ \A i \in 1..Len(token) : token[i] = "1"

\* the loop of _parse_csv over the fields: blank fields are skipped, a
\* field that is not a float ends the loop with the empty list
RECURSIVE CsvLoop(_, _)
CsvLoop(fields, result) ==
    IF fields = <<>> THEN result
    ELSE IF StripBlanks(Head(fields)) = <<>> THEN CsvLoop(Tail(fields), result)
    ELSE IF IsFloat(StripBlanks(Head(fields))) THEN CsvLoop(Tail(fields), Append(result, StripBlanks(Head(fields))))
    ELSE <<>>

ParseCsv(payload) ==
    LET body == RStripChar(LStripChar(StripBlanks(payload), "<"), ">")
    IN  IF body = <<>> THEN <<>> ELSE CsvLoop(Split(ReplaceSemicolons(body), <<>>), <<>>)

\* the keywords in the order parse_line tries them, with kind and arity
KeywordsShortFirst ==
    << [word |-> <<"STRIMU">>, kind |-> "imu_heading", arity |-> ImuArity],
       [word |-> <<"STREAM">>, kind |-> "finger_positions", arity |-> PositionArity],
       [word |-> <<"STREAM", "_RAW">>, kind |-> "raw_positions", arity |-> PositionArity] >>
Keywords ==
    << [word |-> <<"STRIMU">>, kind |-> "imu_heading", arity |-> ImuArity],
       [word |-> <<"STREAM", "_RAW">>, kind |-> "raw_positions", arity |-> PositionArity],
       [word |-> <<"STREAM">>, kind |-> "finger_positions", arity |-> PositionArity] >>

\* one "if line.startswith(keyword)" block: line.replace(keyword, "", 1)
\* takes the keyword off the front
ParseAs(line, keyword) ==
    LET values == ParseCsv(StripBlanks(SubSeq(line, Len(keyword.word) + 1, Len(line))))
    IN  IF Len(values) = keyword.arity THEN [kind |-> keyword.kind, values |-> values] ELSE NoUpdate

RECURSIVE ParseFrom(_, _)
ParseFrom(line, k) ==
    IF k > Len(Keywords) THEN NoUpdate
    ELSE IF StartsWith(line, Keywords[k].word) THEN ParseAs(line, Keywords[k])
    ELSE ParseFrom(line, k + 1)

ParseLine(line) == IF StripBlanks(line) = <<>> THEN NoUpdate ELSE ParseFrom(StripBlanks(line), 1)

\* ---- the lines parse_line is called with
LineHeads == {<<>>, <<"x">>, <<"STRIMU">>, <<"STREAM">>, <<"STREAM", "_RAW">>}
LinePads == {<<>>, <<" ">>}
LineBrackets == {<< <<>>, <<>> >>, << <<"<">>, <<">">> >>, << <<"<">>, <<>> >>}
LineFields == {<<" ", "1">>, <<"x">>, <<>>}
LineSeparators == {",", ";"}

RECURSIVE Join(_, _)
Join(fields, sep) ==
    IF fields = <<>> THEN <<>>
    ELSE IF Len(fields) = 1 THEN Head(fields)
    ELSE Head(fields) \o <<sep>> \o Join(Tail(fields), sep)

FieldLists == UNION {[1..n -> LineFields] : n \in 0..MaxFields}

ParserInit ==
    /\ \E head \in LineHeads, pad \in LinePads, gap \in LinePads, brackets \in LineBrackets,
          fields \in FieldLists, sep \in LineSeparators :
           pr_line = pad \o head \o gap \o brackets[1] \o Join(fields, sep) \o brackets[2] \o pad
    /\ pr_result = NoUpdate
    /\ pr_pc = "call"

ParserIdle ==
    /\ pr_line = <<>>
    /\ pr_result = NoUpdate
    /\ pr_pc = "call"

Parse_line ==
    /\ pr_pc = "call"
    /\ pr_result' = ParseLine(pr_line)
    /\ pr_pc' = "returned"
    /\ UNCHANGED pr_line

ParserFrame == UNCHANGED <<ringVars, scanVars, linkVars, busVars, orchVars, cqVars, sbVars, dgmVars, csVars, ordVars>>

NextParser == Parse_line /\ ParserFrame

(***************************************************************************)
(* Specifications                                                          *)
(***************************************************************************)
InitRing == RingInit /\ ScanIdle /\ LinkIdle /\ BusIdle /\ OrchIdle /\ QueueIdle /\ BuilderIdle /\ ParserIdle /\ DongleIdle /\ TearIdle /\ OrderIdle

NextRing ==
    \/ RingWrite /\ UNCHANGED <<scanVars, linkVars, busVars, orchVars, cqVars, sbVars, prVars, dgmVars, csVars, ordVars>>
    \/ RingRead /\ UNCHANGED <<scanVars, linkVars, busVars, orchVars, cqVars, sbVars, prVars, dgmVars, csVars, ordVars>>
    \/ RingReadLine /\ UNCHANGED <<scanVars, linkVars, busVars, orchVars, cqVars, sbVars, prVars, dgmVars, csVars, ordVars>>
    \/ RingClear /\ UNCHANGED <<scanVars, linkVars, busVars, orchVars, cqVars, sbVars, prVars, dgmVars, csVars, ordVars>>

SpecRing == InitRing /\ [][NextRing]_vars

InitScan == ScanInit /\ RingIdle /\ LinkIdle /\ BusIdle /\ OrchIdle /\ QueueIdle /\ BuilderIdle /\ ParserIdle /\ DongleIdle /\ TearIdle /\ OrderIdle

NextScan == ProcessChunk /\ UNCHANGED <<ringVars, linkVars, busVars, orchVars, cqVars, sbVars, prVars, dgmVars, csVars, ordVars>>

SpecScan == InitScan /\ [][NextScan]_vars

InitTrim == TrimInit /\ RingIdle /\ LinkIdle /\ BusIdle /\ OrchIdle /\ QueueIdle /\ BuilderIdle /\ ParserIdle /\ DongleIdle /\ TearIdle /\ OrderIdle

SpecTrim == InitTrim /\ [][NextScan]_vars

InitLink == LinkInit /\ RingIdle /\ ScanIdle /\ BusIdle /\ OrchIdle /\ QueueIdle /\ BuilderIdle /\ ParserIdle /\ DongleIdle /\ TearIdle /\ OrderIdle

SpecLink == InitLink /\ [][NextLink]_vars

\* Fairness for the Link: a thread that can take a step takes one; a reader
\* loop, a reconnect loop, an error handler and a call that was begun run on.
\* A port whose device is there is not busy forever: the open of a reconnect
\* loop that keeps trying succeeds.  Nothing obliges the User or the Writer
\* to make another call, nor the device to change.
ReaderStep(t) ==
    \/ Reader_top(t)
    \/ Reader_read_data(t)
    \/ Reader_read_empty(t)
    \/ Reader_callback(t)
    \/ Reader_read_raise(t)
    \/ HandleError_close(t)
    \/ HandleError_reconnect(t)

ReconnectStep(t) ==
    \/ Reconnect_top(t)
    \/ Connect_check(t)
    \/ Connect_open_fail(t)
    \/ Connect_reset_fail(t)
    \/ Connect_open_ok(t)
    \/ Connect_start(t)
    \/ Reconnect_exit(t)

UserStep ==
    \/ Connect_check(User)
    \/ Connect_open_fail(User)
    \/ Connect_reset_fail(User)
    \/ Connect_open_ok(User)
    \/ Connect_start(User)
    \/ Disconnect_join
    \/ Disconnect_close
    \/ Autoreconnect_join

WriterStep ==
    \/ Writer_io
    \/ HandleError_close(Writer)
    \/ HandleError_reconnect(Writer)

FairLink ==
    /\ SpecLink
    /\ \A t \in Readers : WF_vars(ReaderStep(t) /\ LinkFrame)
    /\ \A t \in Reconnectors : WF_vars(ReconnectStep(t) /\ LinkFrame)
    /\ \A t \in Reconnectors : SF_vars(Connect_open_ok(t) /\ LinkFrame)
    /\ WF_vars(UserStep /\ LinkFrame)
    /\ WF_vars(WriterStep /\ LinkFrame)

InitDongle ==
    LinkInit /\ DongleInit /\ RingIdle /\ ScanIdle /\ BusIdle /\ OrchIdle /\ QueueIdle
        /\ BuilderIdle /\ ParserIdle /\ TearIdle /\ OrderIdle

SpecDongle == InitDongle /\ [][NextDongle]_vars

InitBus == BusInit /\ RingIdle /\ ScanIdle /\ LinkIdle /\ OrchIdle /\ QueueIdle /\ BuilderIdle /\ ParserIdle /\ DongleIdle /\ TearIdle /\ OrderIdle

SpecBus == InitBus /\ [][NextBus]_vars

InitStatus ==
    StatusInit /\ RingIdle /\ ScanIdle /\ LinkIdle /\ OrchIdle /\ QueueIdle
        /\ BuilderIdle /\ ParserIdle /\ DongleIdle /\ TearIdle /\ OrderIdle

SpecStatus == InitStatus /\ [][NextStatus]_vars

InitSend == OrchInit(<<>>) /\ RingIdle /\ ScanIdle /\ LinkIdle /\ BusIdle /\ QueueIdle /\ BuilderIdle /\ ParserIdle /\ DongleIdle /\ TearIdle /\ OrderIdle

SpecSend == InitSend /\ [][NextSend]_vars

InitOrch == OrchInit(StateSubscribers) /\ RingIdle /\ ScanIdle /\ LinkIdle /\ BusIdle /\ QueueIdle /\ BuilderIdle /\ ParserIdle /\ DongleIdle /\ TearIdle /\ OrderIdle

SpecOrch == InitOrch /\ [][NextOrch]_vars

\* Fairness: the operating system lets every thread that can take a step take
\* it, a subscriber's callback returns, and a call that was begun runs on.
\* Nothing obliges the Caller to make another call, nor the link to change.
PumpStep(r) ==
    \/ Pump_top(r)
    \/ \E radio \in BOOLEAN : Pump_check(r, radio)
    \/ Pump_read_nothing(r)
    \/ Pump_read_update(r)
    \/ Notify_begin(r)
    \/ Notify_next(r)

CallerStep ==
    \/ Transport_connect_dongle_ok
    \/ Transport_connect_dongle_fail
    \/ Transport_connect_start
    \/ Transport_connect_publish
    \/ Transport_disconnect_join_sender
    \/ Transport_disconnect_join_reader
    \/ Transport_disconnect_dongle
    \/ Transport_disconnect_publish
    \/ Notify_begin(Caller)
    \/ Notify_next(Caller)

FairOrch ==
    /\ SpecOrch
    /\ \A r \in Pumps : WF_vars(PumpStep(r) /\ OrchFrame)
    /\ \A s \in Senders : WF_vars(Sender_get(s) /\ OrchFrame)
    /\ WF_vars(CallerStep /\ OrchFrame)

InitBuilder ==
    BuilderInit /\ RingIdle /\ ScanIdle /\ LinkIdle /\ BusIdle /\ OrchIdle /\ QueueIdle /\ ParserIdle /\ DongleIdle /\ TearIdle /\ OrderIdle

SpecBuilder == InitBuilder /\ [][NextBuilder]_vars

InitParser ==
    ParserInit /\ RingIdle /\ ScanIdle /\ LinkIdle /\ BusIdle /\ OrchIdle /\ QueueIdle /\ BuilderIdle /\ DongleIdle /\ TearIdle /\ OrderIdle

SpecParser == InitParser /\ [][NextParser]_vars

InitTear ==
    BuilderInit /\ TearInit /\ RingIdle /\ ScanIdle /\ LinkIdle /\ BusIdle /\ OrchIdle
        /\ QueueIdle /\ ParserIdle /\ DongleIdle /\ OrderIdle

SpecTear == InitTear /\ [][NextTear]_vars

InitOrder ==
    OrchInit(StateSubscribers) /\ OrderInit /\ RingIdle /\ ScanIdle /\ LinkIdle /\ BusIdle
        /\ QueueIdle /\ BuilderIdle /\ ParserIdle /\ DongleIdle /\ TearIdle

SpecOrder == InitOrder /\ [][NextOrder]_vars

InitQueue == QueueInit /\ RingIdle /\ ScanIdle /\ LinkIdle /\ BusIdle /\ OrchIdle /\ BuilderIdle /\ ParserIdle /\ DongleIdle /\ TearIdle /\ OrderIdle

SpecQueue == InitQueue /\ [][NextQueue]_vars

\* Fairness: the monitor thread runs while it can, an on_data call and a
\* stop() call that were begun run on while they can.  Nothing obliges the
\* Link to deliver another chunk, nor the MonitorOwner to make another call.
MonitorStep(m) ==
    \/ Monitor_top(m)
    \/ Monitor_get(m)
    \/ Monitor_get_timeout(m)
    \/ Monitor_process(m)
    \/ Monitor_poll(m)

FairQueue ==
    /\ SpecQueue
    /\ \A m \in Monitors : WF_vars(MonitorStep(m) /\ QueueFrame)
    /\ WF_vars((OnData_drop_oldest \/ OnData_reput) /\ QueueFrame)
    /\ WF_vars((Stop_put \/ Stop_join) /\ QueueFrame)
    /\ WF_vars(QueueTick /\ QueueFrame)

(***************************************************************************)
(* Claims about the FrameScanner (under SpecScan)                          *)
(***************************************************************************)
\* how many bytes of the stream have been read and processed
ScanPos == Len(Flatten(scan_items)) - Len(scan_pending)

\* the chunk a step processes
StepChunk == SubSeq(scan_pending, 1, Len(scan_pending) - Len(scan_pending'))

\* C1: a complete valid status frame (its payload holds no end marker) that
\* arrives at a monitor with an empty buffer, cut into any number of chunks
\* at any offsets, gives exactly one status callback with the fields that
\* the frame delivered as one chunk gives, and leaves the buffer empty.
C1_ChunkedFrameAsWhole ==
    (scan_items[1] \in ValidFrames /\ ScanPos = Len(scan_items[1])) =>
        LET whole == StatusMonitor_process_chunk(<<>>, mon_max_buffer_size, NoStatus,
                                                 scan_items[1])
        IN /\ Len(mon_delivered) = 1
           /\ mon_delivered = whole.emitted
           /\ mon_delivered[1] = StatusOfFrame(scan_items[1])
           /\ mon_latest_status = whole.latest
           /\ mon_buffer = <<>>

\* the frame has arrived in more than one chunk and was emitted
C1_Witness ==
    /\ scan_items[1] \in ValidFrames
    /\ ScanPos = Len(scan_items[1])
    /\ scan_nchunks >= 2
    /\ Len(mon_delivered) = 1
    /\ mon_delivered[1].kind = "status"

\* C2: a chunk that is the concatenation of k complete valid frames makes
\* the monitor call the subscriber exactly k times, in frame order, with
\* the status of each frame, and the latest status is that of the last one.
C2_Step ==
    \A fs \in SeqsOf(ValidFrames, 1, MaxItems) :
        StepChunk = Flatten(fs) =>
            /\ mon_delivered' = mon_delivered \o [i \in 1..Len(fs) |-> StatusOfFrame(fs[i])]
            /\ mon_latest_status' = StatusOfFrame(fs[Len(fs)])

C2_Claim == [][C2_Step]_vars

\* C3: a chunk that is a frame with valid markers and a payload that is not
\* valid JSON leaves nothing of the frame in the buffer (the frame is the
\* end of the buffer, so the buffer is empty afterwards), and, when the
\* buffer held no start marker before, gives no callback and leaves the
\* latest status as it was.
C3_Step ==
    StepChunk \in BadFrames =>
        /\ mon_buffer' = <<>>
        /\ Find(mon_buffer, ESC_STATUS_START, 0) = -1 =>
               /\ mon_delivered' = mon_delivered
               /\ mon_latest_status' = mon_latest_status

C3_Claim == [][C3_Step]_vars

\* C4: when the bytes to scan are a bad frame followed by a complete valid
\* frame, the same processing step emits the valid frame.
C4_Step ==
    \A x \in BadFrames, v \in ValidFrames :
        mon_buffer \o StepChunk = x \o v =>
            /\ mon_delivered' = Append(mon_delivered, StatusOfFrame(v))
            /\ mon_buffer' = <<>>

C4_Claim == [][C4_Step]_vars

(***************************************************************************)
(* Claims about the ByteRing (under SpecRing)                              *)
(***************************************************************************)
\* C5: the buffer never holds more bytes than its capacity, whatever the
\* sequence of write, read, read_line and clear calls.
C5_NeverAboveCapacity == Len(ring_buffer) <= ring_max_size

\* a write that had to drop old bytes has filled the buffer to its capacity
C5_Witness ==
    /\ ring_last.op = "write"
    /\ Len(ring_last.arg) < ring_max_size
    /\ Len(ring_last.before) + Len(ring_last.arg) > ring_max_size
    /\ Len(ring_buffer) = ring_max_size

\* C6: after write(D) on content B the buffer is the last min(C, |B|+|D|)
\* bytes of B followed by D (so the last C bytes of D when |D| >= C, and
\* max(0, |B|+|D|-C) oldest bytes dropped otherwise); write of nothing
\* changes nothing.
C6_WriteKeepsNewestInOrder ==
    ring_last.op = "write" =>
        LET all == ring_last.before \o ring_last.arg
            keep == Min2(ring_max_size, Len(all))
        IN IF ring_last.arg = <<>>
           THEN ring_buffer = ring_last.before
           ELSE /\ ring_buffer = SubSeq(all, Len(all) - keep + 1, Len(all))
                /\ Len(ring_last.arg) >= ring_max_size =>
                       ring_buffer = SubSeq(ring_last.arg,
                                            Len(ring_last.arg) - ring_max_size + 1,
                                            Len(ring_last.arg))

\* a chunk longer than the capacity was written over existing content
C6_Witness ==
    /\ ring_last.op = "write"
    /\ ring_last.before # <<>>
    /\ Len(ring_last.arg) > ring_max_size
    /\ ring_max_size >= 2
    /\ ring_buffer # SubSeq(ring_last.arg, 1, ring_max_size)

\* C7: read_line on a buffer with a newline returns the prefix through the
\* first newline and leaves the rest in order; without a newline it returns
\* nothing and leaves the buffer as it was (so calling it again changes
\* nothing either).
C7_ReadLine ==
    ring_last.op = "read_line" =>
        /\ ring_last.ret \o ring_buffer = ring_last.before
        /\ IF \E i \in 1..Len(ring_last.before) : ring_last.before[i] = NL
           THEN /\ ring_last.ret # <<>>
                /\ ring_last.ret[Len(ring_last.ret)] = NL
                /\ \A i \in 1..(Len(ring_last.ret) - 1) : ring_last.ret[i] # NL
           ELSE ring_last.ret = <<>>

\* a line was taken from in front of further bytes
C7_Witness ==
    /\ ring_last.op = "read_line"
    /\ Len(ring_last.ret) >= 2
    /\ ring_buffer # <<>>


\* the reader loops that are running (started and not ended)
RunningReaders == {r \in Readers : IsAlive(r)}

\* C8: every raw-byte subscriber that stays subscribed is called with each
\* chunk exactly once and in the order the chunks were read (chunk i is the
\* i-th call), so that any two subscribers observe the same sequence, one
\* being at most the chunk in flight ahead of the other.
C8_InOrderExactlyOnce ==
    /\ \A sub \in DOMAIN link_seen :
           \A i \in DOMAIN link_seen[sub] : link_seen[sub][i] = i
    /\ \A s1, s2 \in DOMAIN link_seen :
           s1 < s2 => Len(link_seen[s2]) <= Len(link_seen[s1])
                       /\ Len(link_seen[s1]) <= Len(link_seen[s2]) + 1


\* C9: once the disposer that subscribe returned has itself returned, the
\* callback is not called again: no broadcast step calls an owned callback
\* whose disposer has returned, on any of the three subscriber lists.
C9_Step ==
    \A p \in Publishers :
        (bus_pc[p] = "loop" /\ bus_pc'[p] = "cb") =>
            LET c == bus_copy[p][bus_idx'[p]]
            IN  c \in Owned => bus_handle[c] # "returned"

C9_NoCallAfterDispose == [][C9_Step]_vars

\* the positions at which a thread waits for the subscriber lock, and those
\* at which it owns the lock and works on the list
BusWaiting == {"acquire", "cb_unsub_acquire", "cb_sub_acquire", "sub_acquire", "unsub_acquire"}

BusListOps == {"copy", "cb_unsub", "cb_sub", "sub", "unsub"}

\* C10: the subscriber lock is owned only by a thread that is copying or
\* changing the list, never by one that is calling a callback; so a thread
\* that waits for the subscriber lock, a callback that subscribes or
\* unsubscribes during a broadcast included, waits for another thread that
\* needs no lock to release it, and a publisher that waits for the buffer
\* lock waits for another publisher that is not waiting for it.
C10_LockOnlyWhileCopying ==
    /\ \A t \in BusThreads : bus_lock = t => bus_pc[t] \in BusListOps
    /\ \A t \in BusThreads :
           (bus_pc[t] \in BusWaiting /\ bus_lock # NoThread) => bus_lock # t
    /\ \A p \in Publishers :
           (bus_pc[p] = "enter" /\ bus_buffer_lock # NoThread) =>
               /\ bus_buffer_lock # p
               /\ bus_pc[bus_buffer_lock] \notin {"idle", "enter"}

\* a callback changes the list during a broadcast, owning the lock, while
\* a client and the other publisher wait for it
C10_Witness ==
    \E p \in Publishers :
        /\ bus_pc[p] \in {"cb_unsub", "cb_sub"}
        /\ bus_lock = p
        /\ \E c \in Owned : bus_pc[Owner(c)] \in BusWaiting
        /\ \E q \in Publishers \ {p} : bus_pc[q] \in BusWaiting


\* C11: an exception raised by a subscriber callback is caught where it is
\* raised: when a callback ends, by returning or by raising, the publisher
\* goes on with the same copy at the same entry, so a broadcast ends only
\* when every entry of the copy was called, and the publisher is then free
\* to begin the next broadcast.
C11_Step ==
    \A p \in Publishers :
        /\ (bus_pc[p] = "cb" /\ bus_pc'[p] \notin {"cb", "cb_unsub_acquire", "cb_sub_acquire"}) =>
               /\ bus_pc'[p] = "loop"
               /\ bus_copy'[p] = bus_copy[p]
               /\ bus_idx'[p] = bus_idx[p]
        /\ (bus_pc[p] # "idle" /\ bus_pc'[p] = "idle") =>
               bus_idx[p] = Len(bus_copy[p])

C11_RaiseIsCaught == [][C11_Step]_vars

\* in the second broadcast a callback has raised and the publisher is
\* calling the next entry of the same copy
C11_Witness ==
    \E p \in Publishers :
        /\ bus_raised[p]
        /\ bus_pc[p] = "cb"
        /\ bus_idx[p] = 2
        /\ bus_npub = 2


\* C12: a reconnect loop calls connect() only in a pass that found the
\* stop event clear, the Link disconnected and the device available; a
\* connect() of it that fails takes it back to the top of the loop; after
\* the one connect() of it that returns True it exits, the Link being
\* connected; and a pass that finds the stop event set (auto-reconnect
\* was disabled) or the Link connected exits.
C12_Step ==
    \A k \in Reconnectors :
        /\ (pc[k] = "top" /\ pc'[k] = "connect") =>
               dev_available /\ ~link_stop_reconnect /\ ~DongleConnection_is_connected
        /\ (pc[k] = "top" /\ pc'[k] = "exit") =>
               link_stop_reconnect \/ DongleConnection_is_connected
        /\ (pc[k] = "top" /\ pc'[k] # "top"
               /\ (link_stop_reconnect \/ DongleConnection_is_connected)) => pc'[k] = "exit"
        /\ (pc[k] \in {"connect", "open", "start"} /\ pc'[k] = "exit") =>
               link_connected' /\ pc[k] # "open"
        /\ (pc[k] = "open" /\ pc'[k] # "open") =>
               \/ pc'[k] = "top"
               \/ pc'[k] = "start" /\ link_opened' = link_opened + 1 /\ dev_available
        /\ (pc[k] = "start" /\ pc'[k] # "start") =>
               pc'[k] = "exit" /\ IsAlive(link_reader_thread)'
        /\ (pc[k] = "exit" /\ pc'[k] # "exit") => pc'[k] = "none"

C12_ReconnectLoop == [][C12_Step]_vars

\* the reconnect loop that set_autoreconnect(True) started has made the
\* one connection there is and has exited
C12_Witness ==
    /\ link_nreconnect = 1
    /\ u_ops = 1
    /\ link_autoreconnect
    /\ link_opened = 1
    /\ DongleConnection_is_connected
    /\ IsAlive(link_reader_thread)
    /\ \A k \in Reconnectors : pc[k] = "none"


\* the read of reader r fails with an I/O error: the handle is open and
\* the device is gone
IOErrorAt(r) ==
    /\ pc[r] = "read"
    /\ link_serial # 0
    /\ link_serial # link_closed
    /\ ~dev_available

\* C13: a read that fails with an I/O error while the Link is active runs
\* the error handler: the flags are cleared, so is_connected() is false;
\* the handle the handler finds is closed and cleared; if auto-reconnect
\* is enabled a reconnect thread is alive when the handler returns; and
\* the reader then leaves its loop and ends, waiting for no thread.
C13_Step ==
    \A r \in Readers :
        /\ (IOErrorAt(r) /\ link_active /\ pc'[r] # "read") =>
               /\ pc'[r] = "he_close"
               /\ ret'[r] = "none"
               /\ ~link_active' /\ ~link_connected'
               /\ ~DongleConnection_is_connected'
        /\ (pc[r] = "he_close" /\ pc'[r] # "he_close") =>
               /\ pc'[r] = "he_reconnect"
               /\ link_serial' = 0
               /\ link_serial # 0 => link_closed' = link_serial
        /\ (pc[r] = "he_reconnect" /\ pc'[r] # "he_reconnect") =>
               /\ pc'[r] = ret[r]
               /\ link_autoreconnect => IsAlive(link_reconnect_thread)'

Connectors == {User} \cup Reconnectors

\* C14: connect() ends in one of three ways, none of them an exception.
\* The call that finds the Link connected returns True and opens nothing.
\* The call whose discovery or open fails returns False, leaves the flags
\* as they are and starts no reader loop.  Only the call that opened a
\* handle sets the flags and starts one reader loop.
C14_Step ==
    \A t \in Connectors :
        /\ (pc[t] = "connect" /\ pc'[t] # "connect") =>
               /\ link_connected => pc'[t] = ConnectReturn(t, TRUE)
               /\ ~link_connected => pc'[t] = "open"
               /\ UNCHANGED <<linkState, rd_chunk, rd_idx>>
               /\ \A r \in Readers : pc'[r] = pc[r]
        /\ (pc[t] = "open" /\ pc'[t] # "open" /\ pc'[t] # "start") =>
               /\ pc'[t] = ConnectReturn(t, FALSE)
               /\ UNCHANGED <<link_connected, link_active, link_reader_thread>>
               /\ \A r \in Readers : pc'[r] = pc[r]
        /\ (pc[t] = "open" /\ pc'[t] = "start") =>
               /\ link_opened' = link_opened + 1
               /\ link_serial' = link_opened'
               /\ \A r \in Readers : pc'[r] = pc[r]
        /\ (pc[t] = "start" /\ pc'[t] # "start") =>
               /\ pc'[t] = ConnectReturn(t, TRUE)
               /\ link_connected' /\ link_active'
               /\ Cardinality({r \in Readers : pc[r] = "none" /\ pc'[r] = "top"}) = 1

C14_ConnectOutcomes == [][C14_Step]_vars

\* the first connect() of the User opened the port and failed, leaving
\* the Link disconnected with no reader; the second one has connected
C14_Witness ==
    /\ u_ops = 2
    /\ pc[User] = "idle"
    /\ link_nreconnect = 0
    /\ ~link_autoreconnect
    /\ link_opened = 2
    /\ link_serial = 2
    /\ link_closed = 0
    /\ DongleConnection_is_connected
    /\ Cardinality(RunningReaders) = 1


\* C15: write() called on a Link that is not connected returns False and
\* changes nothing; a write or flush that fails clears the flags (the Link
\* is disconnected), runs the rest of the error handler and returns False;
\* write() returns True only from a write and flush that succeeded, and
\* then changes nothing; there is no other way out of write().
C15_Step ==
    /\ (pc[Writer] = "idle" /\ w_ops' # w_ops) =>
           /\ UNCHANGED <<linkState, ret>>
           /\ ~DongleConnection_is_connected => pc'[Writer] = "idle"
           /\ DongleConnection_is_connected => pc'[Writer] = "write"
    /\ (pc[Writer] = "write" /\ pc'[Writer] # "write") =>
           \/ /\ HandleUsable(link_serial)
              /\ pc'[Writer] = "idle"
              /\ UNCHANGED <<linkState, ret>>
           \/ /\ ~HandleUsable(link_serial)
              /\ pc'[Writer] = "he_close"
              /\ ret'[Writer] = "idle"
              /\ ~link_active' /\ ~link_connected'
              /\ ~DongleConnection_is_connected'
    /\ (pc[Writer] = "he_close" /\ pc'[Writer] # "he_close") =>
           /\ pc'[Writer] = "he_reconnect"
           /\ link_serial' = 0
           /\ link_serial # 0 => link_closed' = link_serial
    /\ (pc[Writer] = "he_reconnect" /\ pc'[Writer] # "he_reconnect") =>
           /\ pc'[Writer] = "idle"
           /\ link_autoreconnect => IsAlive(link_reconnect_thread)'

C15_WriteOutcomes == [][C15_Step]_vars

\* a write has failed, no reader has met the error, and the writer is at
\* the end of the error handler with the Link disconnected
C15_Witness ==
    /\ pc[Writer] = "he_reconnect"
    /\ ret[Writer] = "idle"
    /\ w_ops = 1
    /\ link_closed = 1
    /\ link_serial = 0
    /\ ~DongleConnection_is_connected
    /\ \A r \in Readers : pc[r] \in {"none", "top", "read"} /\ ret[r] = "-"

(***************************************************************************)
(* SerialTransport: commands, rate limit, shutdown                         *)
(***************************************************************************)
SendersEnded == \A s \in Senders : tr_pc[s] = "none"

\* C16: every command send_command accepted is handed to the Dongle exactly
\* once and in the order of queueing (command n is the n-th write), and once
\* no sender loop runs and no send_command is under way, no accepted command
\* is left unwritten.
C16_ExactlyOnceInOrder ==
    /\ \A i \in 1..Len(tr_sent) : tr_sent[i] = i
    /\ (SendersEnded /\ tr_pc[Producer] = "idle") => Len(tr_sent) = tr_naccepted

\* C17: when a command write starts and a command was written before, the
\* last write has completed and at least MinSendInterval has passed since
\* it completed.
C17_Step ==
    (Len(tr_sent') = Len(tr_sent) + 1 /\ Len(tr_sent) > 0) =>
        /\ tr_since_write = MinSendInterval
        /\ \A s \in Senders : tr_pc[s] # "writing"

C17_MinInterval == [][C17_Step]_vars

\* C18: a sender loop or reader loop that is the transport's current one and
\* alive when disconnect() has cleared the flags and queued the sentinel
\* eventually terminates.
C18_LoopsTerminate ==
    \A t \in Senders \cup Pumps :
        (tr_pc[Caller] = "join_sender" /\ t \in {tr_sender_thread, tr_reader_thread} /\ OrchAlive(t))
            ~> (tr_pc[t] = "none")

\* a subscriber is called by thread t in this step
Delivers(t) ==
    /\ tr_pc'[t] = "cb"
    /\ tr_pc[t] # "cb" \/ tr_pub'[t].idx # tr_pub[t].idx

\* C20: every snapshot disconnect() delivers is taken with the Dongle closed
\* and says connected = false, and between the return of disconnect() and
\* the next call of connect() no other snapshot is delivered to a subscriber.
C20_Step ==
    \A t \in Notifiers :
        Delivers(t) =>
            IF tr_pub'[t].by = "disconnect"
               THEN ~tr_pub'[t].snap /\ ~dg_connected
               ELSE ~tr_closed

C20_FinalSnapshot == [][C20_Step]_vars

(***************************************************************************)
(* StatusMonitor: stop()                                                   *)
(***************************************************************************)
\* C19: a call of stop() that has begun returns, whatever the fill level of
\* the chunk queue and wherever the monitor thread is.
C19_StopReturns ==
    (cq_pc[MonitorOwner] \in {"stop_put", "stop_join"}) ~> (cq_pc[MonitorOwner] = "idle")

\* C21: whatever calls of disconnect() came before, once connect() has
\* succeeded and returned, the sender loop it started is running (so that
\* the commands of the session get written).
C21_SenderRunsAfterConnect ==
    (tr_connected /\ tr_pc[Caller] = "idle") => OrchAlive(tr_sender_thread)

(***************************************************************************)
(* C22: subscribe_state appends the callback to the subscriber list, then  *)
(* calls it on the caller's own thread before it returns, and hands the    *)
(* disposer to the caller also when this first call raised: the exception  *)
(* is swallowed and the first call leaves the list as it is.  From then on *)
(* every publish copies the whole list, and only a disposer of the         *)
(* callback takes the callback out of it.                                  *)
(***************************************************************************)
Registered(c, subscribers) == \E i \in 1..Len(subscribers) : subscribers[i] = c

C22_Step ==
    /\ \A c \in Owned :
        \* the disposer is handed out by the step that makes the first call
        /\ (bus_kind = "state" /\ bus_handle[c] # "live" /\ bus_handle'[c] = "live")
               => bus_pc[Owner(c)] = "sub_call"
        \* the callback is registered before the first call
        /\ (bus_pc[Owner(c)] = "sub" /\ bus_pc'[Owner(c)] = "sub_call")
               => Registered(c, bus_subscribers')
        \* subscribe_state returns the disposer, whatever the first call did,
        \* and the first call cancels nothing
        /\ (bus_pc[Owner(c)] = "sub_call" /\ bus_pc'[Owner(c)] = "idle")
               => /\ bus_handle'[c] = "live"
                  /\ bus_subscribers' = bus_subscribers
        \* only a disposer of the callback ends the registration
        /\ (bus_kind = "state" /\ Registered(c, bus_subscribers)
                /\ ~Registered(c, bus_subscribers'))
               => \/ bus_pc[Owner(c)] = "unsub"
                  \/ \E p \in Publishers : bus_pc[p] = "cb_unsub" /\ Current(p) = c
    \* a publish calls every callback registered when it takes its copy
    /\ \A p \in Publishers :
           (bus_kind = "state" /\ bus_pc[p] = "copy" /\ bus_pc'[p] = "loop")
               => bus_copy'[p] = bus_subscribers

C22_SubscribeState == [][C22_Step]_vars

\* the first call of the only subscription raised, and a later publish is
\* calling that callback
C22_Witness ==
    /\ bus_kind = "state"
    /\ bus_first = "raised"
    /\ bus_nops = 1
    /\ \E c \in Owned :
        /\ bus_handle[c] = "live"
        /\ bus_subscribers = <<c>>
        /\ \E p \in Publishers : bus_pc[p] = "cb" /\ Current(p) = c

(***************************************************************************)
(* C23: a connection check of the reader loop leaves the accumulator's     *)
(* connected flag equal to (Dongle connected and the latest status reports *)
(* the radio connected), so false whenever the Dongle is not connected,    *)
(* and it goes on to publish a snapshot exactly when it changed the flag.  *)
(***************************************************************************)
C23_Step ==
    \A r \in Pumps :
        (tr_pc[r] = "check" /\ tr_pc'[r] # "check") =>
            /\ sb_connected' = (dg_connected /\ tr_radio')
            /\ ~dg_connected => ~sb_connected'
            /\ tr_pc'[r] \in {"notify", "read"}
            /\ (tr_pc'[r] = "notify") <=> (sb_connected' # sb_connected)
            /\ (tr_pc'[r] = "notify") => tr_pub'[r].by = "reader"

C23_ConnectionCheck == [][C23_Step]_vars

\* a check has found the Dongle lost while the status still reports the
\* radio connected: the flag is false and the snapshot is being published
C23_Witness ==
    \E r \in Pumps :
        /\ tr_pc[r] = "notify"
        /\ tr_pub[r].ret = "read"
        /\ ~dg_connected
        /\ tr_radio
        /\ ~sb_connected

(***************************************************************************)
(* C24: when the Dongle's link has failed in a session (the failure is     *)
(* caught below the transport and shows as "not connected") while the      *)
(* accumulator says connected and the reader loop is active, a snapshot    *)
(* with connected = false is eventually delivered to the state             *)
(* subscribers, unless the session is ended first.                         *)
(***************************************************************************)
PublishedFalse == \E t \in Notifiers : tr_pc[t] = "cb" /\ ~tr_pub[t].snap

ReaderActive == tr_active /\ OrchAlive(tr_reader_thread)

C24_FailurePublished ==
    (~dg_connected /\ sb_connected /\ ReaderActive) ~> (PublishedFalse \/ ~tr_active)

ChunksOf(queue) == SelectSeq(queue, LAMBDA c : c # 0)

InArrivalOrder(queue) ==
    \A i, j \in 1..Len(ChunksOf(queue)) : i < j => ChunksOf(queue)[i] < ChunksOf(queue)[j]

OnDataNeverWaits ==
    /\ (cq_pc[Feeder] = "idle" /\ cq_nchunks < MaxFeeds) => ENABLED OnData_put
    /\ cq_pc[Feeder] = "drop" => ENABLED OnData_drop_oldest
    /\ cq_pc[Feeder] = "reput" => ENABLED OnData_reput

\* on_data returns from its except branch: the queue was full on arrival
OnDataReturnsAfterFull == cq_pc[Feeder] \in {"drop", "reput"} /\ cq_pc'[Feeder] = "idle"

C30_Step ==
    /\ Len(cq_queue') <= QueueDepth
    /\ InArrivalOrder(cq_queue')
    /\ OnDataNeverWaits
    /\ OnDataReturnsAfterFull =>
           /\ cq_queue' # <<>>
           /\ cq_queue'[Len(cq_queue')] = cq_nchunks

C30_DropOldestAlways == [][C30_Step]_vars

(***************************************************************************)
(* C30 as amended: ... the new chunk is enqueued last after the oldest     *)
(* chunk then queued has been discarded, unless another thread has emptied *)
(* the queue or filled it again in between: then the new chunk is dropped. *)
(***************************************************************************)
C30_AmendedStep ==
    /\ Len(cq_queue') <= QueueDepth
    /\ InArrivalOrder(cq_queue')
    /\ OnDataNeverWaits
    /\ (cq_pc[Feeder] = "drop" /\ cq_pc'[Feeder] = "reput") =>
           /\ cq_queue # <<>>
           /\ <<Head(cq_queue)>> \o cq_queue' = cq_queue
    /\ OnDataReturnsAfterFull =>
           \/ /\ cq_pc[Feeder] = "reput"
              /\ cq_queue' = Append(cq_queue, cq_nchunks)
           \/ /\ cq_pc[Feeder] = "drop" /\ cq_queue = <<>>
              /\ cq_queue' = cq_queue
           \/ /\ cq_pc[Feeder] = "reput" /\ Len(cq_queue) = QueueDepth
              /\ cq_queue' = cq_queue

C30_DropOldest == [][C30_AmendedStep]_vars

\* three chunks were delivered to a queue of depth two that no thread
\* reads: the first was discarded, the third is queued last
C30_Witness ==
    /\ cq_nops = 0
    /\ cq_pc[Feeder] = "idle"
    /\ cq_nchunks >= QueueDepth + 1
    /\ Len(cq_queue) = QueueDepth
    /\ cq_queue[Len(cq_queue)] = cq_nchunks
    /\ cq_queue[1] = cq_nchunks - QueueDepth + 1

(***************************************************************************)
(* C25: a snapshot is an independent copy: no later call on the            *)
(* accumulator changes what is seen through a snapshot returned before.    *)
(***************************************************************************)
C25_Step ==
    (sb_snap # <<>> /\ sb_snap' = sb_snap) => Observed(sb_snap[1])' = Observed(sb_snap[1])

InUnit(x) == x # NaN /\ x[2] > 0 /\ 0 <= x[1] /\ x[1] <= x[2]

C26_Clamped ==
    /\ \A name \in Fingers :
        /\ InUnit(sb_fingers[name].position) /\ InUnit(sb_fingers[name].setpoint)
        /\ sb_snap # <<>> =>
               /\ InUnit(Observed(sb_snap[1]).fingers[name]["position"])
               /\ InUnit(Observed(sb_snap[1]).fingers[name]["setpoint"])
    /\ sb_last[1] = "set_finger_setpoint" =>
           /\ Less(Num(1), sb_last[3]) => sb_fingers[sb_last[2]].setpoint = Num(1)
           /\ Less(sb_last[3], Num(0)) => sb_fingers[sb_last[2]].setpoint = Num(0)

\* a setpoint above 1 has just been stored as 1, while a calibrated finger
\* has a position computed from a raw update
C26_Witness ==
    /\ sb_last[1] = "set_finger_setpoint"
    /\ Less(Num(1), sb_last[3])
    /\ sb_fingers[sb_last[2]].setpoint = Num(1)
    /\ \E name \in Fingers : sb_fingers[name].calibrated /\ sb_fingers[name].position # Num(0)

(***************************************************************************)
(* C27: a finger whose calibrated flag is true has raw_max > raw_min.      *)
(***************************************************************************)
C27_CalibratedWindow ==
    \A name \in Fingers : sb_fingers[name].calibrated => sb_fingers[name].raw_max > sb_fingers[name].raw_min

(***************************************************************************)
(* C27 as amended: a finger whose calibrated flag is true has              *)
(* raw_max > raw_min unless set_calibrating(True) has reset the windows    *)
(* since that finger's last apply_calibration.                             *)
(***************************************************************************)
C27_CalibratedWindowUntilReset ==
    \A name \in Fingers :
        (sb_fingers[name].calibrated /\ ~sb_recal[name])
            => sb_fingers[name].raw_max > sb_fingers[name].raw_min

\* a calibrated finger whose window a raw update has widened in calibration mode
C27_Witness ==
    \E name \in Fingers :
        /\ sb_fingers[name].calibrated
        /\ ~sb_recal[name]
        /\ sb_calibrating
        /\ sb_last[1] = "apply" /\ sb_last[2] = "raw_positions"
        /\ sb_fingers[name].raw_max = RAW_MAX
        /\ sb_fingers[name].raw_min < RAW_MAX

(***************************************************************************)
(* C29: parse_line returns an update, of the kind of the longest keyword   *)
(* the trimmed line starts with, exactly when what follows the keyword     *)
(* (less enclosing angle brackets) consists of as many numeric tokens as   *)
(* the kind requires, 3 for the orientation and 5 for both position kinds, *)
(* and of nothing else; otherwise, and for an unknown keyword or an empty  *)
(* line, it returns no update.  Tokens are the non-blank fields between    *)
(* the separators.                                                         *)
(***************************************************************************)
NonBlank(s) == {i \in 1..Len(s) : s[i] # " "}

Between(s, skipLeft, skipRight) ==
    LET keepL == {i \in 1..Len(s) : s[i] # skipLeft}
        keepR == {i \in 1..Len(s) : s[i] # skipRight}
    IN  IF keepL = {} \/ keepR = {} THEN <<>>
        ELSE SubSeq(s, CHOOSE i \in keepL : \A j \in keepL : i <= j,
                       CHOOSE i \in keepR : \A j \in keepR : i >= j)

Trimmed(s) == Between(s, " ", " ")

MatchingKeywords(s) ==
    {k \in {[word |-> <<"STRIMU">>, kind |-> "imu_heading", arity |-> 3],
            [word |-> <<"STREAM">>, kind |-> "finger_positions", arity |-> 5],
            [word |-> <<"STREAM", "_RAW">>, kind |-> "raw_positions", arity |-> 5]} :
        Len(s) >= Len(k.word) /\ \A i \in 1..Len(k.word) : s[i] = k.word[i]}

LongestKeyword(s) ==
    CHOOSE k \in MatchingKeywords(s) : \A other \in MatchingKeywords(s) : Len(k.word) >= Len(other.word)

\* the fields of a payload: what lies between two neighbouring separators
\* (or ends), as pairs of positions
FieldBounds(body) ==
    LET cuts == {0, Len(body) + 1} \cup {i \in 1..Len(body) : body[i] \in {",", ";"}}
    IN  {b \in cuts \X cuts : b[1] < b[2] /\ ~\E c \in cuts : b[1] < c /\ c < b[2]}

TokensOf(body) ==
    {b \in FieldBounds(body) : NonBlank(SubSeq(body, b[1] + 1, b[2] - 1)) # {}}

NumericToken(body, b) ==
    \A i \in 1..Len(Trimmed(SubSeq(body, b[1] + 1, b[2] - 1))) :
        Trimmed(SubSeq(body, b[1] + 1, b[2] - 1))[i] = "1"

WellFormed(s) ==
    LET k == LongestKeyword(s)
        body == Between(Trimmed(SubSeq(s, Len(k.word) + 1, Len(s))), "<", ">")
    IN  /\ \A b \in TokensOf(body) : NumericToken(body, b)
        /\ Cardinality(TokensOf(body)) = k.arity

C29_ParseLine ==
    pr_pc = "returned" =>
        IF MatchingKeywords(Trimmed(pr_line)) = {}
            THEN pr_result = NoUpdate
            ELSE /\ (pr_result # NoUpdate) <=> WellFormed(Trimmed(pr_line))
                 /\ pr_result # NoUpdate =>
                        /\ pr_result.kind = LongestKeyword(Trimmed(pr_line)).kind
                        /\ Len(pr_result.values) = LongestKeyword(Trimmed(pr_line)).arity

\* a raw-position line in angle brackets, with semicolons and an empty
\* field, has been parsed to an update
C29_Witness ==
    /\ pr_pc = "returned"
    /\ pr_result.kind = "raw_positions"
    /\ \E i \in 1..Len(pr_line) : pr_line[i] = "<"
    /\ \E i \in 1..Len(pr_line) : pr_line[i] = ";"
    /\ Len(pr_line) > 0 /\ pr_line[1] = " "

(***************************************************************************)
(* Claims about the FrameScanner's overflow trim (under SpecTrim)          *)
(***************************************************************************)
\* the buffer a step scans before it is trimmed, and after
StepWhole == mon_buffer \o StepChunk

StepTrimmed == StatusMonitor_trim_buffer(StepWhole, mon_max_buffer_size)

\* buf holds the start marker at the 0-based index i
StartAt(buf, i) ==
    /\ i + Len(ESC_STATUS_START) <= Len(buf)
    /\ Slice(buf, i, i + Len(ESC_STATUS_START)) = ESC_STATUS_START

\* tail is the end of buf
IsSuffix(tail, buf) ==
    /\ Len(tail) <= Len(buf)
    /\ tail = SliceFrom(buf, Len(buf) - Len(tail))

\* C31: after every processed chunk the reassembly buffer holds at most the
\* ceiling number of bytes; when buffer and chunk together exceed the
\* ceiling, what is scanned is exactly their last ceiling bytes, a start
\* marker lying within those bytes is in the scanned buffer at its place,
\* and what the scan leaves is an end of them.
C31_Step ==
    LET max == mon_max_buffer_size
        cut == Len(StepWhole) - max
    IN /\ Len(mon_buffer') <= max
       /\ IsSuffix(mon_buffer', StepTrimmed)
       /\ cut > 0 =>
            /\ Len(StepTrimmed) = max
            /\ \A k \in 1..max : StepTrimmed[k] = StepWhole[cut + k]
            /\ \A i \in cut..(Len(StepWhole) - 1) :
                   StartAt(StepWhole, i) => StartAt(StepTrimmed, i - cut)

C31_TrimKeepsNewest == [][C31_Step]_vars

\* a chunk has overflowed the buffer, and the start marker of the frame in
\* progress that followed the overflowing data is in the buffer
C31_Witness ==
    /\ scan_items = <<Filler(30), PartialFrame>>
    /\ scan_pending = <<>>
    /\ scan_nchunks = 1
    /\ Len(mon_buffer) = mon_max_buffer_size
    /\ StartAt(mon_buffer, mon_max_buffer_size - Len(PartialFrame))

(***************************************************************************)
(* More claims about the FrameScanner (under SpecScan and SpecTrim)        *)
(***************************************************************************)
\* the statuses a step has emitted
StepEmitted == SubSeq(mon_delivered', Len(mon_delivered) + 1, Len(mon_delivered'))

\* C38: a complete valid frame appended to the reassembly buffer is emitted
\* by the step that appends it, whatever the buffer held, an earlier frame
\* without its end marker included.
C38_Step ==
    \A v \in ValidFrames :
        StepChunk = v =>
            \E i \in 1..Len(StepEmitted) : StepEmitted[i] = StatusOfFrame(v)

C38_FrameAfterPartialFrame == [][C38_Step]_vars

\* buf begins with the sequence head
BeginsWith(buf, head) == Len(head) <= Len(buf) /\ SubSeq(buf, 1, Len(head)) = head

\* C39: the trim removes no byte of a frame in progress.  When the bytes
\* from a start marker to the end of the buffer are at most the ceiling,
\* the trim leaves that start marker and everything after it; so when these
\* bytes begin with a complete valid frame and nothing but marker-free data
\* precedes it, whatever its amount, the step emits that frame.
C39_Step ==
    LET max == mon_max_buffer_size
        first == Find(StepWhole, ESC_STATUS_START, 0)
    IN /\ \A i \in 0..(Len(StepWhole) - 1) :
              (StartAt(StepWhole, i) /\ Len(StepWhole) - i <= max)
                  => IsSuffix(SliceFrom(StepWhole, i), StepTrimmed)
       /\ \A v \in ValidFrames :
              (/\ first # -1
               /\ Len(StepWhole) - first <= max
               /\ BeginsWith(SliceFrom(StepWhole, first), v))
                  => /\ StepEmitted # <<>>
                     /\ StepEmitted[1] = StatusOfFrame(v)

ReadersAtWork == {r \in Readers : pc[r] = "read"}

\* C33: at most one reader loop reads at any time: a reader loop of an
\* earlier connection does not read next to the reader loop of the
\* connection made after it.
C33_OneReaderLoop == Cardinality(ReadersAtWork) <= 1

\* a thread has caught an I/O failure and has entered _handle_error
IOFailure == \E t \in Readers \cup {Writer} : pc[t] = "he_close"

\* connected, with an open handle and a running reader loop
LinkUp ==
    /\ DongleConnection_is_connected
    /\ link_serial # link_closed
    /\ IsAlive(link_reader_thread)

\* the model's counters are used up: no further open, or an error handler
\* that may start no further reconnect loop
LinkBounded ==
    \/ link_opened >= MaxOpens
    \/ /\ link_nreconnect >= MaxReconnects
       /\ \E t \in Readers \cup {Writer} :
              pc[t] = "he_reconnect" /\ StartsReconnect(link_autoreconnect)

\* C32: with auto-reconnect enabled and the device available from some
\* point on, every I/O failure, whichever thread catches it and wherever a
\* reconnect loop is at that moment, is followed by the Link being
\* connected again with an open handle and a running reader loop (unless
\* auto-reconnect is disabled meanwhile).
C32_ReconnectsAfterFailure ==
    (<>[]dev_available) =>
        []((IOFailure /\ link_autoreconnect)
               => <>(LinkUp \/ ~link_autoreconnect \/ LinkBounded))

(***************************************************************************)
(* Claims about the Dongle (under SpecDongle)                              *)
(***************************************************************************)
\* Dongle.disconnect() was the last call made and it has returned
DisconnectReturned == dgm_call = "disconnect" /\ pc[User] = "idle"

\* C34: after Dongle.disconnect() has returned, and until connect() is
\* called again, the Link is not Connected: a reconnect loop that was still
\* running when disconnect() started does not complete a connect() later.
C34_DisconnectedStaysDisconnected == DisconnectReturned => ~link_connected

\* Dongle.connect() was the last call made and it has returned
ConnectReturned == dgm_call = "connect" /\ pc[User] = "idle"

\* C40: once Dongle.connect() has been called with its default arguments
\* and has returned, the monitor loop is running whenever the Link is
\* Connected, also when the reconnect loop made the connection.
C40_MonitorRunsWhenConnected ==
    (ConnectReturned /\ DongleConnection_is_connected) => dgm_monitor_running

(***************************************************************************)
(* Claims about the StatusMonitor's locks (under SpecStatus)               *)
(***************************************************************************)
\* C35: a status callback may call any public method of the monitor
\* without deadlocking: no thread waits for a lock that it owns itself,
\* neither for the subscriber lock (subscribe_status, a disposer) nor for
\* the buffer lock (get_buffer_size, clear_buffer).
C35_CallbackNeverWaitsForItself ==
    \A t \in BusThreads :
        /\ bus_pc[t] \in BusWaiting => bus_lock # t
        /\ bus_pc[t] = "buf_acquire" => bus_buffer_lock # t

(***************************************************************************)
(* Claims about snapshots taken while an update is applied (SpecTear)      *)
(***************************************************************************)
\* C36: a snapshot taken on a caller's thread while the reader loop applies
\* an update reflects all of that update or none of it: the finger table
\* of every snapshot returned is the table as it was before or after some
\* apply() that the snapshot overlapped, never a mixture of the two.
C36_SnapshotIsWhole ==
    (cs_reads = <<>> /\ sb_snap # <<>>) => sb_snap[1].fingers \in cs_allowed

(***************************************************************************)
(* Claims about the order of delivered snapshots (under SpecOrder)         *)
(***************************************************************************)
\* C37: a state subscriber gets the snapshots in the order in which they
\* were taken: no thread calls a subscriber with its snapshot after another
\* thread has called that subscriber with a snapshot that was taken later.
C37_Step ==
    \A t \in Notifiers :
        Delivers(t) => tr_pub'[t].idx \notin ord_stale[t]

C37_DeliveredInCaptureOrder == [][C37_Step]_vars

====
